---------------------------- MODULE Spec2Model ----------------------------
(***************************************************************************)
(* Expense-report generation of the receipt scanner: the three report      *)
(* generators (the export-complete-report route, ExcelGenerator and         *)
(* ExcelProcessor), the date parsing and sorting they use, the category     *)
(* classification and the totals they write; then the date functions        *)
(* called on their own (DateSpec) and the reimbursement calculation of the  *)
(* mileage form (MileageSpec).                                              *)
(*                                                                         *)
(* Text is modelled as a sequence of one-character strings, so that         *)
(* trimming, splitting, regular-expression matching, parseInt, parseFloat,  *)
(* toLowerCase and includes are computed on the characters as the code      *)
(* computes them.  Money is counted in cents (every amount text of the      *)
(* model has at most two fraction digits), NaN is a value of its own.       *)
(***************************************************************************)
EXTENDS Integers, Sequences, FiniteSets, TLC

VARIABLES
    endpoint,     \* the generator that handled the last request ("none" at start)
    requestBody,  \* the request as the caller holds it after the call
    response,     \* what the generator returned: status, sheets, warnings
    sentBody,     \* the request as the caller sent it
    storedEntries, \* mileage/entries: the module variable mileageEntries
    entryCount,   \* mileage/entries: the entries created so far (ids are never reused)
    analyzePc,    \* analyze-receipt: the await the handler is at
    s3Object,     \* analyze-receipt: the local s3Object ("none" before the upload returns)
    thrown,       \* analyze-receipt: the message of the error caught at line 87
    calls,        \* analyze-receipt: the calls of S3Service and TextractService so far
    uiReceipts,   \* page: the state receipts
    uiEmployeeName, \* page: the state employeeName
    generatedReport, \* page: the state generatedReport, with the request it answers
    hasEditsAfterGeneration, \* page: the state hasEditsAfterGeneration
    inFlight,     \* page: the requests to generate-expense-report not yet answered
    receiptCount  \* page: the receipts and edits made so far

storeVars == <<storedEntries, entryCount>>

\* the variables the report generators, the date functions and the mileage
\* form never touch
analyzeVars == <<analyzePc, s3Object, thrown, calls>>

pageVars == <<uiReceipts, uiEmployeeName, generatedReport, hasEditsAfterGeneration, inFlight, receiptCount>>

callVars == <<sentBody>>

serviceVars == <<callVars, storeVars, analyzeVars, pageVars>>

vars == <<endpoint, requestBody, response, serviceVars>>

\* no request has reached mileage/entries
StoreStart == storedEntries = <<>> /\ entryCount = 0

\* no request has reached analyze-receipt
AnalyzeStart == analyzePc = "idle" /\ s3Object = "none" /\ thrown = <<>> /\ calls = <<>>

\* useState(null) of generatedReport
NoReport == [set |-> FALSE, receipts |-> <<>>, employeeName |-> ""]

\* the page as it is first rendered
PageStart ==
    /\ uiReceipts = <<>> /\ uiEmployeeName = ""
    /\ generatedReport = NoReport /\ hasEditsAfterGeneration = FALSE
    /\ inFlight = {} /\ receiptCount = 0

\* no call of a report generator is under way
CallStart == sentBody = <<>>

ServicesStart == CallStart /\ StoreStart /\ AnalyzeStart /\ PageStart

-----------------------------------------------------------------------------
(* Text helpers: JavaScript string operations on character sequences.      *)

Digits == <<"0","1","2","3","4","5","6","7","8","9">>

IsDigit(c) == \E i \in 1..10 : Digits[i] = c

DigitVal(c) == (CHOOSE i \in 1..10 : Digits[i] = c) - 1

IsSpace(c) == c = " "

UpperLetters == <<"A","B","C","D","E","F","G","H","I","J","K","L","M","N","O","P","Q","R","S","T","U","V","W","X","Y","Z">>

LowerLetters == <<"a","b","c","d","e","f","g","h","i","j","k","l","m","n","o","p","q","r","s","t","u","v","w","x","y","z">>

\* String.prototype.toLowerCase on one character
LowerChar(c) ==
    IF \E i \in 1..26 : UpperLetters[i] = c
    THEN LowerLetters[CHOOSE i \in 1..26 : UpperLetters[i] = c]
    ELSE c

\* String.prototype.toLowerCase
toLowerCase(s) == [i \in 1..Len(s) |-> LowerChar(s[i])]

\* String.prototype.includes
includes(s, sub) ==
    \E i \in 0..(Len(s) - Len(sub)) : \A j \in 1..Len(sub) : s[i + j] = sub[j]

\* String.prototype.trim
RECURSIVE TrimLeft(_)
TrimLeft(s) == IF s # <<>> /\ IsSpace(Head(s)) THEN TrimLeft(Tail(s)) ELSE s

RECURSIVE TrimRight(_)
TrimRight(s) ==
    IF s # <<>> /\ IsSpace(s[Len(s)]) THEN TrimRight(SubSeq(s, 1, Len(s) - 1)) ELSE s

trim(s) == TrimRight(TrimLeft(s))

\* number of digit characters of s starting at position i
RECURSIVE DigitRun(_, _)
DigitRun(s, i) == IF i <= Len(s) /\ IsDigit(s[i]) THEN 1 + DigitRun(s, i + 1) ELSE 0

\* value of the decimal digits s[i..j]
RECURSIVE DigitsValue(_, _, _)
DigitsValue(s, i, j) ==
    IF j < i THEN 0 ELSE DigitsValue(s, i, j - 1) * 10 + DigitVal(s[j])

\* Number.prototype.toString for a non-negative integer
RECURSIVE IntToText(_)
IntToText(n) ==
    IF n < 10 THEN <<Digits[n + 1]>> ELSE Append(IntToText(n \div 10), Digits[(n % 10) + 1])

\* String.prototype.padStart(2, '0')
padStart2(s) == IF Len(s) < 2 THEN <<"0">> \o s ELSE s

\* parseInt(s, 10): leading white space, an optional sign, then the digits;
\* NaN (here -1, no text of the model has a '-' in a part) when there is none
NaNInt == 0 - 1

parseInt(s) ==
    LET t == TrimLeft(s)
        p == IF t # <<>> /\ t[1] = "+" THEN 2 ELSE 1
        n == DigitRun(t, p)
    IN  IF n = 0 THEN NaNInt ELSE DigitsValue(t, p, p + n - 1)

IsSep(c) == c = "/" \/ c = "-"

\* String.prototype.split(/[\/\-]/)
RECURSIVE SplitSep(_, _)
SplitSep(s, cur) ==
    IF s = <<>> THEN <<cur>>
    ELSE IF IsSep(Head(s)) THEN <<cur>> \o SplitSep(Tail(s), <<>>)
    ELSE SplitSep(Tail(s), Append(cur, Head(s)))

-----------------------------------------------------------------------------
(* Dates.                                                                  *)

\* /^(\d{1,2})[\/\-](\d{1,2})[\/\-](\d{2,4})$/ : the three groups as numbers
MatchMDY(s) ==
    LET n1 == DigitRun(s, 1)
        n2 == DigitRun(s, n1 + 2)
        n3 == DigitRun(s, n1 + n2 + 3)
    IN  IF /\ n1 \in 1..2
           /\ Len(s) >= n1 + 1 /\ IsSep(s[n1 + 1])
           /\ n2 \in 1..2
           /\ Len(s) >= n1 + n2 + 2 /\ IsSep(s[n1 + n2 + 2])
           /\ n3 \in 2..4
           /\ Len(s) = n1 + n2 + n3 + 2
        THEN [ok |-> TRUE,
              month |-> DigitsValue(s, 1, n1),
              day |-> DigitsValue(s, n1 + 2, n1 + n2 + 1),
              year |-> DigitsValue(s, n1 + n2 + 3, n1 + n2 + n3 + 2)]
        ELSE [ok |-> FALSE, month |-> 0, day |-> 0, year |-> 0]

\* /^(\d{4})-(\d{1,2})-(\d{1,2})/ : a prefix match
MatchISO(s) ==
    LET n1 == DigitRun(s, 1)
        n2 == DigitRun(s, 6)
        n3 == DigitRun(s, n2 + 7)
        l3 == IF n3 > 2 THEN 2 ELSE n3
    IN  IF /\ n1 = 4
           /\ Len(s) >= 5 /\ s[5] = "-"
           /\ n2 \in 1..2
           /\ Len(s) >= n2 + 6 /\ s[n2 + 6] = "-"
           /\ n3 >= 1
        THEN [ok |-> TRUE,
              year |-> DigitsValue(s, 1, 4),
              month |-> DigitsValue(s, 6, n2 + 5),
              day |-> DigitsValue(s, n2 + 7, n2 + l3 + 6)]
        ELSE [ok |-> FALSE, month |-> 0, day |-> 0, year |-> 0]

\* if (year < 100) year = 2000 + year
FourDigitYear(year) == IF year < 100 THEN 2000 + year ELSE year

IsLeap(y) == (y % 4 = 0 /\ y % 100 # 0) \/ y % 400 = 0

DaysBeforeYear(y) == 365 * y + ((y + 3) \div 4) - ((y + 99) \div 100) + ((y + 399) \div 400)

DaysInMonth(y, m) ==
    IF m = 2 THEN (IF IsLeap(y) THEN 29 ELSE 28)
    ELSE IF m \in {4, 6, 9, 11} THEN 30 ELSE 31

RECURSIVE DaysBeforeMonth(_, _)
DaysBeforeMonth(y, m) == IF m <= 1 THEN 0 ELSE DaysBeforeMonth(y, m - 1) + DaysInMonth(y, m - 1)

\* new Date(year, monthIndex, day, 12, 0, 0).getTime(), counted in whole days:
\* every such time is local noon, so two of them are equal or ordered exactly
\* as their day numbers.  A month index or a day out of range rolls over.
DateTime(year, monthIndex, day) ==
    LET y == year + (monthIndex \div 12)
        m == (monthIndex % 12) + 1
    IN  DaysBeforeYear(y) + DaysBeforeMonth(y, m) + day

NullDate == [ok |-> FALSE, sortValue |-> 0, time |-> 0]

\* ExcelGenerator.normalizeDate
normalizeDate(dateStr) ==
    IF dateStr = <<>> THEN dateStr
    ELSE LET parts == SplitSep(dateStr, <<>>)
             numText(n) == IF n = NaNInt THEN <<"N","a","N">> ELSE IntToText(n)
         IN  IF Len(parts) = 3
             THEN numText(parseInt(parts[1])) \o <<"/">> \o numText(parseInt(parts[2]))
                      \o <<"/">> \o parts[3]
             ELSE dateStr

\* the validation of ExcelGenerator.parseReceiptDate
ValidComponents(month, day, year) ==
    month >= 1 /\ month <= 12 /\ day >= 1 /\ day <= 31 /\ year >= 1900 /\ year <= 2100

\* the Date of validated components, carrying sortValue
SortableDate(year, month, day) ==
    [ok |-> TRUE,
     sortValue |-> year * 10000 + month * 100 + day,
     time |-> DateTime(year, month - 1, day)]

\* parseReceiptDate after the two matches of cleanedDate
ParseMatches(dateMatch, isoMatch) ==
    IF /\ dateMatch.ok
       /\ ValidComponents(dateMatch.month, dateMatch.day, FourDigitYear(dateMatch.year))
    THEN SortableDate(FourDigitYear(dateMatch.year), dateMatch.month, dateMatch.day)
    ELSE IF isoMatch.ok /\ ValidComponents(isoMatch.month, isoMatch.day, isoMatch.year)
    THEN SortableDate(isoMatch.year, isoMatch.month, isoMatch.day)
    ELSE NullDate

\* ExcelGenerator.parseReceiptDate: a Date carrying sortValue, or null
parseReceiptDate(dateStr) ==
    IF dateStr = <<>> THEN NullDate
    ELSE ParseMatches(MatchMDY(trim(dateStr)), MatchISO(trim(dateStr)))

\* parseDate inside the comparator of export-complete-report: a Date or null
parseDate(dateStr) ==
    IF dateStr = <<>> THEN NullDate
    ELSE LET date(match) ==
                 IF match.ok
                 THEN [ok |-> TRUE, sortValue |-> 0,
                       time |-> DateTime(FourDigitYear(match.year), match.month - 1, match.day)]
                 ELSE NullDate
         IN  date(MatchMDY(trim(dateStr)))

-----------------------------------------------------------------------------
(* JavaScript values: numbers (money in cents), NaN, undefined and text.    *)

Num(v) == [t |-> "num", v |-> v]

NaN == [t |-> "nan", v |-> 0]

Undefined == [t |-> "undefined", v |-> 0]

Text(s) == [t |-> "text", v |-> s]

\* a cell whose value is a formula: args are <<row, col>> pairs
Formula(op, from, to) == [t |-> op, v |-> <<from, to>>]

\* ToBoolean
Truthy(x) ==
    CASE x.t = "num" -> x.v # 0
      [] x.t = "text" -> x.v # <<>>
      [] OTHER -> FALSE

\* x || y
Or(x, y) == IF Truthy(x) THEN x ELSE y

\* x + y on numbers
Plus(x, y) == IF x.t = "num" /\ y.t = "num" THEN Num(x.v + y.v) ELSE NaN

\* x - y on numbers
Minus(x, y) == IF x.t = "num" /\ y.t = "num" THEN Num(x.v - y.v) ELSE NaN

\* the sum of the numbers of a sequence, added left to right from 0
RECURSIVE SumSeq(_)
SumSeq(q) == IF q = <<>> THEN Num(0) ELSE Plus(SumSeq(SubSeq(q, 1, Len(q) - 1)), q[Len(q)])

-----------------------------------------------------------------------------
(* Array.prototype.sort as the engine of Node.js runs it on an array of     *)
(* fewer than 64 elements: the first run is counted (and reversed when it   *)
(* strictly descends), the rest is put in place by binary insertion.  A     *)
(* comparator result is a number; NaN counts as 0.                          *)

InsertAt(a, pos, x) == SubSeq(a, 1, pos - 1) \o <<x>> \o SubSeq(a, pos, Len(a))

Reverse(a) == [i \in 1..Len(a) |-> a[Len(a) + 1 - i]]

\* what the engine makes of a comparator's result (a number): NaN counts as 0
CompareResult(r) == IF r.t = "num" THEN r.v ELSE 0

\* The array is sorted through its positions: a is a sequence of positions of
\* the original array and cmp[<<i, j>>] the comparator's result on the elements
\* that stood at positions i and j.

\* length of the run a[1..k] that CountAndMakeRun finds, given its direction
RECURSIVE RunLength(_, _, _, _)
RunLength(a, k, descending, cmp) ==
    IF k >= Len(a) THEN k
    ELSE LET order == CompareResult(cmp[<<a[k + 1], a[k]>>])
         IN  IF (descending /\ order >= 0) \/ (~descending /\ order < 0)
             THEN k
             ELSE RunLength(a, k + 1, descending, cmp)

\* the insertion point of pivot in the sorted prefix, 0-based [left, right)
RECURSIVE BinarySearch(_, _, _, _, _)
BinarySearch(a, pivot, left, right, cmp) ==
    IF left >= right THEN left
    ELSE LET mid == left + ((right - left) \div 2)
         IN  IF CompareResult(cmp[<<pivot, a[mid + 1]>>]) < 0
             THEN BinarySearch(a, pivot, left, mid, cmp)
             ELSE BinarySearch(a, pivot, mid + 1, right, cmp)

\* BinaryInsertionSort: a[1..start] is sorted, the elements after it are inserted
RECURSIVE BinaryInsertionSort(_, _, _)
BinaryInsertionSort(a, start, cmp) ==
    IF start >= Len(a) THEN a
    ELSE LET pivot == a[start + 1]
             pos == BinarySearch(a, pivot, 0, start, cmp)
             moved == InsertAt(SubSeq(a, 1, start), pos + 1, pivot)
                          \o SubSeq(a, start + 2, Len(a))
         IN  BinaryInsertionSort(moved, start + 1, cmp)

\* the positions 1..n in the order the sort leaves their elements in
ArraySort(n, cmp) ==
    LET a == [i \in 1..n |-> i]
    IN  IF n < 2 THEN a
        ELSE LET descending == CompareResult(cmp[<<2, 1>>]) < 0
                 run == RunLength(a, 2, descending, cmp)
                 made == IF descending
                         THEN Reverse(SubSeq(a, 1, run)) \o SubSeq(a, run + 1, n)
                         ELSE a
             IN  BinaryInsertionSort(made, run, cmp)

-----------------------------------------------------------------------------
(* Amounts.                                                                *)

\* String.prototype.replace(/[^0-9.-]/g, '')
RECURSIVE StripAmount(_)
StripAmount(s) ==
    IF s = <<>> THEN <<>>
    ELSE IF IsDigit(Head(s)) \/ Head(s) = "." \/ Head(s) = "-"
         THEN <<Head(s)>> \o StripAmount(Tail(s))
         ELSE StripAmount(Tail(s))

\* the cents of the fraction digits s[i..]: the first two count
FractionCents(s, i, n) ==
    IF n = 0 THEN 0
    ELSE IF n = 1 THEN DigitVal(s[i]) * 10
    ELSE DigitVal(s[i]) * 10 + DigitVal(s[i + 1])

\* parseFloat on text of digits, '.' and '-': the longest prefix that is a
\* decimal literal, NaN when there is none
parseFloat(s) ==
    LET neg == s # <<>> /\ s[1] = "-"
        p == IF neg THEN 2 ELSE 1
        n1 == DigitRun(s, p)
        dot == Len(s) >= p + n1 /\ s[p + n1] = "."
        n2 == IF dot THEN DigitRun(s, p + n1 + 1) ELSE 0
        magnitude == DigitsValue(s, p, p + n1 - 1) * 100 + FractionCents(s, p + n1 + 1, n2)
    IN  IF n1 + n2 = 0 THEN NaN
        ELSE Num(IF neg THEN 0 - magnitude ELSE magnitude)

\* ExcelGenerator.parseAmount, ExcelProcessor.parseAmount
parseAmount(amount) ==
    IF amount = <<>> THEN Num(0)
    ELSE Or(parseFloat(StripAmount(amount)), Num(0))

\* export-complete-report: parseFloat(total?.replace(/[^\d.-]/g, '') || '0')
RouteAmount(total) ==
    LET cleaned == StripAmount(total)
    IN  parseFloat(IF cleaned = <<>> THEN <<"0">> ELSE cleaned)

-----------------------------------------------------------------------------
(* Formatting a date for the Date column.                                   *)

\* formatDate of export-complete-report
RouteFormatDate(dateStr) ==
    IF dateStr = <<>> THEN <<>>
    ELSE LET match == MatchMDY(trim(dateStr))
         IN  IF match.ok
             THEN padStart2(IntToText(match.month)) \o <<"/">>
                      \o padStart2(IntToText(match.day)) \o <<"/">>
                      \o IntToText(FourDigitYear(match.year))
             ELSE dateStr

\* a formatDate that writes month and day as they are, without padding
formatDateUnpadded(dateStr) ==
    IF dateStr = <<>> THEN <<>>
    ELSE LET dateMatch == MatchMDY(trim(dateStr))
         IN  IF dateMatch.ok
             THEN IntToText(dateMatch.month) \o <<"/">> \o IntToText(dateMatch.day)
                      \o <<"/">> \o IntToText(FourDigitYear(dateMatch.year))
             ELSE dateStr

\* ExcelGenerator.formatDate
formatDate(dateStr) ==
    IF dateStr = <<>> THEN <<>>
    ELSE LET dateMatch == MatchMDY(trim(dateStr))
             isoMatch == MatchISO(dateStr)
         IN  IF dateMatch.ok
             THEN padStart2(IntToText(dateMatch.month)) \o <<"/">>
                      \o padStart2(IntToText(dateMatch.day)) \o <<"/">>
                      \o IntToText(FourDigitYear(dateMatch.year))
             ELSE IF isoMatch.ok
             THEN padStart2(IntToText(isoMatch.month)) \o <<"/">>
                      \o padStart2(IntToText(isoMatch.day)) \o <<"/">>
                      \o IntToText(isoMatch.year)
             ELSE dateStr

-----------------------------------------------------------------------------
(* Categories.  The twelve categories are numbered 1..12 in the order of    *)
(* the columns: HOTEL/MOTEL, MEALS, ENTERTAINMENT, TRANSPORT/AIR-RAIL,       *)
(* COMPUTER SUPPLIES, CELL PHONE, GAS, COPIES, DUES, POSTAGE,                *)
(* OFFICE SUPPLIES, MISC.                                                    *)

HOTEL == 1
MEALS == 2
ENTERTAINMENT == 3
TRANSPORT == 4
COMPUTER == 5
CELLPHONE == 6
GAS == 7
COPIES == 8
DUES == 9
POSTAGE == 10
OFFICE == 11
MISC == 12

Categories == 1..12

\* the keys of EXPENSE_CATEGORIES, in column order
CategoryNames ==
    << <<"H","O","T","E","L","/","M","O","T","E","L">>, <<"M","E","A","L","S">>, <<"E","N","T","E","R","T","A","I","N","M","E","N","T">>, <<"T","R","A","N","S","P","O","R","T","/","A","I","R","-","R","A","I","L">>,
       <<"C","O","M","P","U","T","E","R"," ","S","U","P","P","L","I","E","S">>, <<"C","E","L","L"," ","P","H","O","N","E">>, <<"G","A","S">>, <<"C","O","P","I","E","S">>, <<"D","U","E","S">>,
       <<"P","O","S","T","A","G","E">>, <<"O","F","F","I","C","E"," ","S","U","P","P","L","I","E","S">>, <<"M","I","S","C">> >>

\* EXPENSE_CATEGORIES[category]: the category of that name, 0 when there is none
LookupCategory(category) ==
    IF \E k \in Categories : CategoryNames[k] = category
    THEN CHOOSE k \in Categories : CategoryNames[k] = category
    ELSE 0

\* the if/else chain of export-complete-report
RouteCategory(receipt) ==
    LET category == toLowerCase(receipt.category)
        has(word) == includes(category, word)
    IN  IF has(<<"h","o","t","e","l">>) \/ has(<<"l","o","d","g","i","n","g">>) \/ has(<<"m","o","t","e","l">>) THEN HOTEL
        ELSE IF \/ has(<<"f","o","o","d">>) \/ has(<<"m","e","a","l">>) \/ has(<<"r","e","s","t","a","u","r","a","n","t">>)
                \/ includes(toLowerCase(receipt.vendor), <<"r","e","s","t","a","u","r","a","n","t">>) THEN MEALS
        ELSE IF has(<<"e","n","t","e","r","t","a","i","n","m","e","n","t">>) THEN ENTERTAINMENT
        ELSE IF \/ has(<<"t","r","a","n","s","p","o","r","t">>) \/ has(<<"u","b","e","r">>) \/ has(<<"l","y","f","t">>)
                \/ has(<<"t","a","x","i">>) \/ has(<<"a","i","r">>) \/ has(<<"r","a","i","l">>) THEN TRANSPORT
        ELSE IF has(<<"c","o","m","p","u","t","e","r">>) \/ has(<<"s","u","p","p","l","i","e","s">>) THEN COMPUTER
        ELSE IF has(<<"c","e","l","l">>) \/ has(<<"p","h","o","n","e">>) THEN CELLPHONE
        ELSE IF has(<<"g","a","s">>) \/ has(<<"m","i","l","e","a","g","e">>) \/ has(<<"f","u","e","l">>) THEN GAS
        ELSE IF has(<<"c","o","p","i","e","s">>) \/ has(<<"p","r","i","n","t","i","n","g">>) THEN COPIES
        ELSE IF has(<<"d","u","e","s">>) \/ has(<<"m","e","m","b","e","r","s","h","i","p">>) THEN DUES
        ELSE IF has(<<"p","o","s","t","a","g","e">>) \/ has(<<"s","h","i","p","p","i","n","g">>) THEN POSTAGE
        ELSE IF has(<<"o","f","f","i","c","e">>) THEN OFFICE
        ELSE MISC

\* ExcelGenerator: the category looked up by name, MISC when that finds nothing
GeneratorCategory(receipt) ==
    LET categoryCol == IF receipt.category # <<>> THEN LookupCategory(receipt.category) ELSE 0
    IN  IF categoryCol = 0 THEN MISC ELSE categoryCol

\* ExcelProcessor: the category looked up by name, 0 (no column) when that finds nothing
ProcessorCategory(receipt) ==
    IF receipt.category # <<>> THEN LookupCategory(receipt.category) ELSE 0

-----------------------------------------------------------------------------
(* Sheets.  A sheet maps the rows the generator wrote to their cells; only   *)
(* the cells that carry request data or totals are kept (titles, labels,     *)
(* borders and number formats are left out).                                 *)

EmptyCell == [t |-> "empty", v |-> 0]

BlankRow(cols) == [c \in cols |-> EmptyCell]

Cell(sheet, r, c) ==
    IF r \in DOMAIN sheet /\ c \in DOMAIN sheet[r] THEN sheet[r][c] ELSE EmptyCell

\* the number a cell contributes to a SUM: text and empty cells count 0
RECURSIVE CellNumber(_, _, _)
RECURSIVE RangeSum(_, _, _, _, _)
CellNumber(sheet, r, c) ==
    LET cell == Cell(sheet, r, c)
    IN  CASE cell.t = "num" -> cell
          [] cell.t = "nan" -> cell
          [] cell.t = "sum" -> RangeSum(sheet, cell.v[1][1], cell.v[1][2], cell.v[2][1], cell.v[2][2])
          [] cell.t = "ref" -> CellNumber(sheet, cell.v[1][1], cell.v[1][2])
          [] cell.t = "minus" -> Minus(CellNumber(sheet, cell.v[1][1], cell.v[1][2]),
                                       CellNumber(sheet, cell.v[2][1], cell.v[2][2]))
          [] OTHER -> Num(0)

\* SUM over the rectangle from (r1, c1) to (r2, c2), halving it down to the
\* cells (in cents the sum does not depend on the order of the additions)
RangeSum(sheet, r1, c1, r2, c2) ==
    IF r1 > r2 \/ c1 > c2 THEN Num(0)
    ELSE IF r1 < r2
         THEN Plus(RangeSum(sheet, r1, c1, (r1 + r2) \div 2, c2),
                   RangeSum(sheet, ((r1 + r2) \div 2) + 1, c1, r2, c2))
    ELSE IF c1 < c2
         THEN Plus(RangeSum(sheet, r1, c1, r2, (c1 + c2) \div 2),
                   RangeSum(sheet, r1, ((c1 + c2) \div 2) + 1, r2, c2))
    ELSE CellNumber(sheet, r1, c1)

-----------------------------------------------------------------------------
(* export-complete-report: POST.                                            *)

\* a grid one row longer
maxExpenseRowLonger == 37 + 1

maxExpenseRow == 37

RouteFirstRow == 10

RouteCols == 1..19

\* row.getCell(7) .. row.getCell(18): the column of a category
RouteCol(category) == category + 6

RouteTotalsCol == 19

\* the comparator of sortedReceipts
RouteCompare(a, b) ==
    IF a.date = <<>> /\ b.date = <<>> THEN Num(0)
    ELSE IF a.date = <<>> THEN Num(1)
    ELSE IF b.date = <<>> THEN Num(0 - 1)
    ELSE LET parsedDateA == parseDate(a.date)
             parsedDateB == parseDate(b.date)
         IN  IF ~parsedDateA.ok /\ ~parsedDateB.ok THEN Num(0)
             ELSE IF ~parsedDateA.ok THEN Num(1)
             ELSE IF ~parsedDateB.ok THEN Num(0 - 1)
             ELSE Num(parsedDateA.time - parsedDateB.time)

\* [...receipts].sort(comparator): the positions of receipts in sorted order
RouteSort(receipts) ==
    ArraySort(Len(receipts),
              [p \in (1..Len(receipts)) \X (1..Len(receipts)) |->
                   RouteCompare(receipts[p[1]], receipts[p[2]])])

\* a data row whose Totals column is left out
RouteDataRowNoTotal(receipt) ==
    LET amount == RouteAmount(receipt.total)
        merchant == Or(Text(receipt.vendor), Text(receipt.merchant))
    IN  [c \in RouteCols |->
            CASE c = 1 -> Text(RouteFormatDate(receipt.date))
              [] c = 2 -> merchant
              [] c = 4 -> Or(Text(receipt.category), Text(<<"B","u","s","i","n","e","s","s"," ","E","x","p","e","n","s","e">>))
              [] c = RouteCol(RouteCategory(receipt)) -> amount
              [] OTHER -> EmptyCell]

\* the data row of one receipt
RouteDataRow(receipt) ==
    LET amount == RouteAmount(receipt.total)
        merchant == Or(Text(receipt.vendor), Text(receipt.merchant))
    IN  [c \in RouteCols |->
            CASE c = 1 -> Text(RouteFormatDate(receipt.date))
              [] c = 2 -> merchant
              [] c = 4 -> Or(Text(receipt.category), Text(<<"B","u","s","i","n","e","s","s"," ","E","x","p","e","n","s","e">>))
              [] c = RouteCol(RouteCategory(receipt)) -> amount
              [] c = RouteTotalsCol -> amount
              [] OTHER -> EmptyCell]

\* a row left over after the receipts: '' everywhere, 0 in the totals column
RouteFillRow == [c \in RouteCols |-> IF c = RouteTotalsCol THEN Num(0) ELSE Text(<<>>)]

\* the amounts of the placed receipts of one category, in row order
RECURSIVE RouteCategoryTotal(_, _)
RouteCategoryTotal(placed, category) ==
    IF placed = <<>> THEN Num(0)
    ELSE LET rest == RouteCategoryTotal(SubSeq(placed, 1, Len(placed) - 1), category)
             last == placed[Len(placed)]
         IN  IF RouteCategory(last) = category THEN Plus(rest, RouteAmount(last.total)) ELSE rest

\* mileageEntries.reduce((sum, entry) => sum + (entry.reimbursableAmount || 0), 0)
RECURSIVE MileageTotal(_)
MileageTotal(entries) ==
    IF entries = <<>> THEN Num(0)
    ELSE Plus(MileageTotal(SubSeq(entries, 1, Len(entries) - 1)),
              Or(entries[Len(entries)].reimbursableAmount, Num(0)))

\* a gasTotal that adds the mileage total to the GAS receipts
RouteGasTotalSummed(placed, mileageEntries) ==
    Plus(RouteCategoryTotal(placed, GAS), MileageTotal(mileageEntries))

\* gasTotal when the TOTALS row is written: the mileage total when there are
\* mileage entries, else the GAS amounts of the placed receipts
RouteGasTotal(placed, mileageEntries) ==
    IF Len(mileageEntries) > 0 THEN MileageTotal(mileageEntries)
    ELSE RouteCategoryTotal(placed, GAS)

\* a totalMiles that adds up the amounts instead of the distances
TotalMilesOfAmounts(entries) == MileageTotal(entries)

\* totalMiles += entry.reimbursableDistance || 0
RECURSIVE TotalMiles(_)
TotalMiles(entries) ==
    IF entries = <<>> THEN Num(0)
    ELSE Plus(TotalMiles(SubSeq(entries, 1, Len(entries) - 1)),
              Or(entries[Len(entries)].reimbursableDistance, Num(0)))

\* the 'Mileage Details' sheet: the entries from row 5 on in the order of the
\* request, 20 rows of '' cells, a row left out, the total row
MileageSheet(entries, mileageTotal) ==
    LET n == Len(entries)
        totalRow == 5 + n + 20 + 1
    IN  [r \in (5..(4 + n + 20)) \cup {totalRow} |->
            IF r = totalRow
            THEN [c \in 1..6 |-> CASE c = 5 -> TotalMiles(entries)
                                   [] c = 6 -> mileageTotal
                                   [] OTHER -> EmptyCell]
            ELSE IF r > 4 + n
            THEN [c \in 1..6 |-> Text(<<>>)]
            ELSE [c \in 1..6 |-> CASE c = 1 -> Text(entries[r - 4].date)
                                   [] c = 4 -> Text(entries[r - 4].businessPurpose)
                                   [] c = 5 -> entries[r - 4].reimbursableDistance
                                   [] c = 6 -> entries[r - 4].reimbursableAmount
                                   [] OTHER -> EmptyCell]]

\* a workbook that gets the mileage sheet whatever the request holds
HasMileageSheetAlways(mileageEntries) == TRUE

\* if (mileageEntries && mileageEntries.length > 0): the workbook gets the
\* 'Mileage Details' sheet
HasMileageSheet(mileageEntries) == Len(mileageEntries) > 0

NoSheet == [r \in {} |-> BlankRow({})]

Rejected(status) ==
    [status |-> status, sheet |-> NoSheet, totalsRow |-> 0, summaryRow |-> 0,
     order |-> <<>>, rowOf |-> <<>>, mileageSheet |-> NoSheet, sheets |-> 0, warnings |-> 0]

\* row 39, TOTALS: the category totals ('' for 0) and the grand total
RouteTotalsRow(placed, mileageEntries, grandTotal) ==
    [c \in RouteCols |->
        IF c = RouteTotalsCol THEN grandTotal
        ELSE IF c = RouteCol(GAS) THEN Or(RouteGasTotal(placed, mileageEntries), Text(<<>>))
        ELSE IF c - 6 \in Categories THEN Or(RouteCategoryTotal(placed, c - 6), Text(<<>>))
        ELSE EmptyCell]

\* POST from the sorted receipts on: order holds the positions of the
\* receipts in sorted order, placed the receipts that get a row
RouteWorkbook(placed, order, mileageEntries) ==
    LET count == Len(placed)
        mileageTotal == IF Len(mileageEntries) > 0 THEN MileageTotal(mileageEntries) ELSE Num(0)
        summaryCell(v) == [c \in RouteCols |-> IF c = RouteTotalsCol THEN v ELSE EmptyCell]
        sheet(total) ==
            [r \in (RouteFirstRow..maxExpenseRow) \cup {39, 54, 55, 57} |->
                IF r \in RouteFirstRow..maxExpenseRow
                THEN (IF r - RouteFirstRow < count
                      THEN RouteDataRow(placed[r - RouteFirstRow + 1])
                      ELSE RouteFillRow)
                ELSE IF r = 39 THEN RouteTotalsRow(placed, mileageEntries, total)
                ELSE IF r = 55 THEN summaryCell(Num(0))
                ELSE summaryCell(total)]
    IN  [status |-> 200,
         sheet |-> sheet(Plus(SumSeq([k \in 1..count |-> RouteAmount(placed[k].total)]),
                              mileageTotal)),
         totalsRow |-> 39,
         summaryRow |-> 54,
         order |-> order,
         rowOf |-> [k \in 1..count |-> [row |-> RouteFirstRow + k - 1, id |-> placed[k].id]],
         mileageSheet |-> IF HasMileageSheet(mileageEntries)
                          THEN MileageSheet(mileageEntries, mileageTotal)
                          ELSE NoSheet,
         sheets |-> IF HasMileageSheet(mileageEntries) THEN 2 ELSE 1,
         warnings |-> 0]

\* the receipts that get a row: the first ones in sorted order, as many as fit
\* in rows 10 to maxExpenseRow
RoutePlaced(receipts, order) ==
    [k \in 1..(IF Len(order) > maxExpenseRow - RouteFirstRow + 1
               THEN maxExpenseRow - RouteFirstRow + 1 ELSE Len(order)) |->
        receipts[order[k]]]

\* POST of export-complete-report
ExportCompleteReportPOST(body) ==
    IF body.employeeName = "" THEN Rejected(400)
    ELSE LET write(order) ==
                 RouteWorkbook(RoutePlaced(body.receipts, order), order, body.mileageEntries)
         IN  write(RouteSort(body.receipts))

-----------------------------------------------------------------------------
(* ExcelGenerator.generateExpenseReport.                                    *)

maxRowsInTemplate == 28

startRow == 10

GeneratorCols == 1..16

\* EXPENSE_CATEGORIES of ExcelGenerator: columns D (4) to O (15)
GeneratorCol(category) == category + 3

\* the comparator of ExcelGenerator.sortReceiptsByDate, on the parsed dates
GeneratorCompare(a, b) ==
    IF ~a.ok /\ ~b.ok THEN Num(0)
    ELSE IF ~a.ok THEN Num(1)
    ELSE IF ~b.ok THEN Num(0 - 1)
    ELSE Num(a.sortValue - b.sortValue)

\* ExcelGenerator.sortReceiptsByDate: the positions of receipts in sorted order
sortReceiptsByDate(receipts) ==
    LET parsed(i) == parseReceiptDate(normalizeDate(receipts[i].date))
    IN  ArraySort(Len(receipts),
                  [p \in (1..Len(receipts)) \X (1..Len(receipts)) |->
                       GeneratorCompare(parsed(p[1]), parsed(p[2]))])

CertificationText == << <<"I"," ","H","E","R","E","B","Y"," ","C","E","R","T","I","F","Y">>, <<"R","E","L","A","T","E","D"," ","T","O">>, <<"C","O","M","P","A","N","Y","'","S"," ","B","U","S","I","N","E","S","S",".">> >>

\* the cells of the data row r of one receipt
GeneratorDataRow(receipt, r) ==
    [c \in GeneratorCols |->
        CASE c = 1 -> Text(formatDate(receipt.date))
          [] c = 2 -> Text(receipt.merchant)
          [] c = 3 -> Text(receipt.description)
          [] c = GeneratorCol(GeneratorCategory(receipt)) -> parseAmount(receipt.total)
          [] c = 16 -> Formula("sum", <<r, 4>>, <<r, 15>>)
          [] OTHER -> EmptyCell]

\* addSummarySection: what it writes to the cell (r, c), was the cell's content before
SummarySection(r, c, totalsRowNum, was) ==
    LET summaryStartRow == totalsRowNum + 15
    IN  IF r \in {summaryStartRow, summaryStartRow + 1, summaryStartRow + 3}
        THEN (IF c # 11 THEN EmptyCell
              ELSE IF r = summaryStartRow
                   THEN Formula("ref", <<totalsRowNum, 16>>, <<totalsRowNum, 16>>)
              ELSE IF r = summaryStartRow + 1 THEN Num(0)
              ELSE Formula("minus", <<summaryStartRow, 11>>, <<summaryStartRow + 1, 11>>))
        \* rows 51-53: the certification text in column I, merged to O (to L in row 53)
        ELSE IF r \in 51..53 /\ c >= 9 /\ c <= (IF r = 53 THEN 12 ELSE 15)
        THEN Text(CertificationText[r - 50])
        ELSE was

\* generateExpenseReport from the sorted receipts on: order holds the
\* positions of the receipts in sorted order
GeneratorWorkbook(receipts, order) ==
    LET n == Len(order)
        endRow == startRow + (IF n > maxRowsInTemplate THEN n ELSE maxRowsInTemplate) - 1
        totalsRowNum == endRow + 2
        gridCell(r, c) ==
            IF r \in startRow..endRow
            THEN (IF c = 16 THEN Formula("sum", <<r, 4>>, <<r, 15>>) ELSE EmptyCell)
            ELSE IF r = totalsRowNum /\ c \in 4..16
                 THEN Formula("sum", <<startRow, c>>, <<endRow, c>>)
            ELSE EmptyCell
        gridRow(r) ==
            IF r \in startRow..(startRow + n - 1)
            THEN GeneratorDataRow(receipts[order[r - startRow + 1]], r)
            ELSE [c \in GeneratorCols |-> gridCell(r, c)]
        sheet(rows, totalsRow) ==
            [r \in rows |-> [c \in GeneratorCols |-> SummarySection(r, c, totalsRow, gridRow(r)[c])]]
    IN  [status |-> 200,
         sheet |-> sheet((startRow..endRow) \cup (51..53)
                             \cup {totalsRowNum, totalsRowNum + 15, totalsRowNum + 16,
                                   totalsRowNum + 18},
                         totalsRowNum),
         totalsRow |-> totalsRowNum,
         summaryRow |-> totalsRowNum + 15,
         order |-> order,
         rowOf |-> [k \in 1..n |-> [row |-> startRow + k - 1, id |-> receipts[order[k]].id]],
         mileageSheet |-> NoSheet,
         sheets |-> 1,
         warnings |-> 0]

\* generateExpenseReport: the workbook it resolves to
generateExpenseReport(data) == GeneratorWorkbook(data.receipts, sortReceiptsByDate(data.receipts))

\* POST of generate-expense-report: the report, or 500 when generation throws
GenerateExpenseReportPOST(body) == generateExpenseReport(body)

-----------------------------------------------------------------------------
(* ExcelProcessor.processWithWorkbook, on a template whose data area is      *)
(* empty.                                                                   *)

MAX_RECEIPTS == 28

DATA_START_ROW == 10

ProcessorCols == 1..20

\* EXPENSE_CATEGORIES of ExcelProcessor: columns F, G, H, then J to R
ProcessorCol(category) == IF category <= 3 THEN category + 5 ELSE category + 6

\* three numbers separated by '/' or '-', as the engine's legacy date parser reads them
MatchNumbers(s) ==
    LET n1 == DigitRun(s, 1)
        n2 == DigitRun(s, n1 + 2)
        n3 == DigitRun(s, n1 + n2 + 3)
    IN  IF /\ n1 >= 1 /\ n2 >= 1 /\ n3 >= 1
           /\ Len(s) = n1 + n2 + n3 + 2
           /\ IsSep(s[n1 + 1]) /\ IsSep(s[n1 + n2 + 2])
        THEN [ok |-> TRUE,
              first |-> DigitsValue(s, 1, n1),
              second |-> DigitsValue(s, n1 + 2, n1 + n2 + 1),
              third |-> DigitsValue(s, n1 + n2 + 3, n1 + n2 + n3 + 2),
              iso |-> n1 = 4 /\ n2 = 2 /\ n3 = 2 /\ s[5] = "-" /\ s[8] = "-"]
        ELSE [ok |-> FALSE, first |-> 0, second |-> 0, third |-> 0, iso |-> FALSE]

\* The Date of three numbers as the engine of Node.js reads them: an ISO
\* date; else month, day, year (year, month, day when the first number is no
\* day), a year below 50 in the 2000s and below 100 in the 1900s; else an
\* invalid date.  Time zones are left out: the time is counted in whole days.
DateOfNumbers(m) ==
    LET ymd == m.first < 1 \/ m.first > 31
        rawYear == IF ymd THEN m.first ELSE m.third
        year == IF rawYear < 50 THEN 2000 + rawYear
                ELSE IF rawYear < 100 THEN 1900 + rawYear ELSE rawYear
        month == IF ymd THEN m.second ELSE m.first
        day == IF ymd THEN m.third ELSE m.second
        invalid == [ok |-> FALSE, year |-> 0, month |-> 0, day |-> 0, time |-> 0]
    IN  IF ~m.ok THEN invalid
        ELSE IF m.iso /\ m.second \in 1..12 /\ m.third >= 1
                /\ m.third <= DaysInMonth(m.first, m.second)
             THEN [ok |-> TRUE, year |-> m.first, month |-> m.second, day |-> m.third,
                   time |-> DateTime(m.first, m.second - 1, m.third)]
        ELSE IF month \in 1..12 /\ day \in 1..31
             THEN [ok |-> TRUE, year |-> year, month |-> month, day |-> day,
                   time |-> DateTime(year, month - 1, day)]
        ELSE invalid

\* new Date(dateStr)
JsDate(dateStr) == DateOfNumbers(MatchNumbers(trim(dateStr)))

\* the month of the year and the day of the month of a day count
RECURSIVE MonthOfDays(_, _, _)
MonthOfDays(y, m, d) ==
    IF d > DaysInMonth(y, m) THEN MonthOfDays(y, m + 1, d - DaysInMonth(y, m))
    ELSE <<m, d>>

\* Date.prototype.toLocaleDateString('en-US')
toLocaleDateString(date) ==
    LET text(md) == IntToText(md[1]) \o <<"/">> \o IntToText(md[2])
                        \o <<"/">> \o IntToText(date.year)
    IN  IF ~date.ok THEN <<"I","n","v","a","l","i","d"," ","D","a","t","e">>
        ELSE text(MonthOfDays(date.year, date.month, date.day))

\* ExcelProcessor.formatDate
ProcessorFormatDate(dateStr) == toLocaleDateString(JsDate(dateStr))

\* dateA.getTime() - dateB.getTime()
TimeDifference(dateA, dateB) ==
    IF dateA.ok /\ dateB.ok THEN Num(dateA.time - dateB.time) ELSE NaN

\* the comparator of ExcelProcessor.sortReceiptsByDate
ProcessorCompare(a, b) ==
    IF a.date = <<>> /\ b.date = <<>> THEN Num(0)
    ELSE IF a.date = <<>> THEN Num(1)
    ELSE IF b.date = <<>> THEN Num(0 - 1)
    ELSE TimeDifference(JsDate(a.date), JsDate(b.date))

\* ExcelProcessor.sortReceiptsByDate: the positions of receipts in sorted order
ProcessorSort(receipts) ==
    ArraySort(Len(receipts),
              [p \in (1..Len(receipts)) \X (1..Len(receipts)) |->
                   ProcessorCompare(receipts[p[1]], receipts[p[2]])])

\* the cells of the data row of one receipt
ProcessorDataRow(receipt) ==
    [c \in ProcessorCols |->
        CASE c = 1 /\ receipt.date # <<>> -> Text(ProcessorFormatDate(receipt.date))
          [] c = 2 /\ receipt.merchant # <<>> -> Text(receipt.merchant)
          [] c = 4 /\ receipt.description # <<>> -> Text(receipt.description)
          [] /\ ProcessorCategory(receipt) # 0
             /\ c = ProcessorCol(ProcessorCategory(receipt)) -> parseAmount(receipt.total)
          [] c = 20 -> parseAmount(receipt.total)
          [] OTHER -> EmptyCell]

\* processWithWorkbook from the sorted receipts on: order holds the positions
\* of the receipts in sorted order
ProcessorWorkbook(receipts, order) ==
    LET count == IF Len(order) > MAX_RECEIPTS THEN MAX_RECEIPTS ELSE Len(order)
        only(col, v) == [c \in ProcessorCols |-> IF c = col THEN v ELSE EmptyCell]
        summary(totalExpenses) ==
            [r \in {39, 54, 57} |->
                only(CASE r = 39 -> 20 [] r = 54 -> 12 [] OTHER -> 13, totalExpenses)]
        rows == [r \in DATA_START_ROW..(DATA_START_ROW + count - 1) |->
                    ProcessorDataRow(receipts[order[r - DATA_START_ROW + 1]])]
    IN  [status |-> 200,
         sheet |-> rows @@ summary(SumSeq([k \in 1..count |->
                                              parseAmount(receipts[order[k]].total)])),
         totalsRow |-> 39,
         summaryRow |-> 54,
         order |-> order,
         rowOf |-> [k \in 1..count |->
                       [row |-> DATA_START_ROW + k - 1, id |-> receipts[order[k]].id]],
         mileageSheet |-> NoSheet,
         sheets |-> 1,
         warnings |-> IF Len(order) > MAX_RECEIPTS THEN 1 ELSE 0]

\* ExcelProcessor.processWithWorkbook
processWithWorkbook(data) == ProcessorWorkbook(data.receipts, ProcessorSort(data.receipts))

-----------------------------------------------------------------------------
(* The requests of the model and the calls.                                 *)

\* the longest list of distinct receipts in a request
MaxBase == 2

\* the longest list of distinct receipts in a long request and in one with mileage
MaxFew == 1

\* the number of identical receipts that fill a long request
PadCount == 28

\* the longest list of mileage entries in a request
MaxMileage == 2

Receipt(date, merchant, total, category) ==
    [id |-> 0, date |-> date, vendor |-> <<>>, merchant |-> merchant,
     description |-> <<>>, total |-> total, category |-> category]

\* the receipts the client can send: what analyze-receipt extracted, with the
\* category the user selected, if any
Pool ==
    << Receipt(<<"1","/","5","/","2","4">>, <<"H","i","l","t","o","n">>, <<"$","1","2","0",".","0","0">>, <<"H","O","T","E","L","/","M","O","T","E","L">>),
       Receipt(<<"1","/","3","/","2","4">>, <<"S","h","e","l","l">>, <<"4","5",".","5","0">>, <<"G","A","S">>),
       Receipt(<<>>, <<"S","t","a","p","l","e","s">>, <<"$","1",",","2","3","4",".","5","6">>, <<"O","f","f","i","c","e"," ","S","u","p","p","l","i","e","s">>),
       Receipt(<<"N","/","A">>, <<"J","o","e","'","s"," ","R","e","s","t","a","u","r","a","n","t">>, <<"2","0",".","0","0">>, <<>>),
       Receipt(<<"1","3","/","1","/","2","4">>, <<"Y","e","l","l","o","w"," ","C","a","b">>, <<"8",".","2","5">>, <<"T","r","a","v","e","l">>),
       Receipt(<<"2","/","3","0","/","2","4">>, <<"D","e","p","o","t">>, <<"5",".","0","0">>, <<"O","F","F","I","C","E"," ","S","U","P","P","L","I","E","S">>),
       Receipt(<<"3","/","1","/","2","4">>, <<"D","i","n","e","r">>, <<"1","2",".","0","0">>, <<"M","E","A","L","S">>),
       Receipt(<<"0","1","/","0","5","/","2","0","2","4">>, <<"K","i","o","s","k">>, <<"3",".","0","0">>, <<"M","I","S","C">>),
       Receipt(<<"1","/","2","/","2","4">>, <<"C","a","f","e">>, <<"-">>, <<"M","E","A","L","S">>),
       [Receipt(<<"1","/","7","/","2","4">>, <<"B","i","s","t","r","o">>, <<"3","0",".","0","0">>, <<"M","E","A","L","S">>)
           EXCEPT !.description = <<"C","l","i","e","n","t"," ","l","u","n","c","h">>] >>

Filler == Receipt(<<"1","/","4","/","2","4">>, <<"P","a","r","k","i","n","g">>, <<"1",".","0","0">>, <<"P","A","R","K","I","N","G">>)

\* the reimbursable amounts of the mileage entries, in cents; an entry that was
\* never calculated has neither amount nor distance
MileageAmounts == {Undefined, Num(0), Num(500)}

MileageEntry(amount) ==
    [date |-> <<"1","/","6","/","2","4">>, businessPurpose |-> <<"C","l","i","e","n","t"," ","v","i","s","i","t">>,
     reimbursableDistance |-> IF amount = Undefined THEN Undefined ELSE Num(amount.v \div 67),
     reimbursableAmount |-> amount]

SeqsUpTo(S, n) == UNION {[1..k -> S] : k \in 0..n}

\* the receipts of a request: the chosen ones of the pool, then the fillers;
\* id is the position in the request
ReceiptList(choice, pad) ==
    [i \in 1..(Len(choice) + pad) |->
        [(IF i <= Len(choice) THEN Pool[choice[i]] ELSE Filler) EXCEPT !.id = i]]

Request(name, choice, pad, amounts) ==
    [employeeName |-> name,
     receipts |-> ReceiptList(choice, pad),
     mileageEntries |-> [i \in 1..Len(amounts) |-> MileageEntry(amounts[i])]]

\* requests without mileage, short and long
ReceiptRequests ==
    {Request("Pat", choice, 0, <<>>) : choice \in SeqsUpTo(1..Len(Pool), MaxBase)}
    \cup {Request("Pat", choice, PadCount, <<>>) : choice \in SeqsUpTo(1..Len(Pool), MaxFew)}

\* requests with mileage
MileageRequests ==
    {Request("Pat", choice, 0, amounts) :
        choice \in SeqsUpTo(1..Len(Pool), MaxFew),
        amounts \in SeqsUpTo(MileageAmounts, MaxMileage) \ {<<>>}}

\* requests without an employee name
NamelessRequests ==
    {Request("", choice, 0, <<>>) : choice \in SeqsUpTo(1..Len(Pool), 1)}

NoRequest == [employeeName |-> "", receipts |-> <<>>, mileageEntries |-> <<>>]

NoResponse ==
    [status |-> 0, sheet |-> <<>>, totalsRow |-> 0, summaryRow |-> 0, order |-> <<>>, rowOf |-> <<>>,
     mileageSheet |-> NoSheet, sheets |-> 0, warnings |-> 0]

\* receipts.sort(...) and splice(28) on the array of the caller itself
SortedInPlace(receipts, order) ==
    [k \in 1..(IF Len(order) > 28 THEN 28 ELSE Len(order)) |-> receipts[order[k]]]

\* export-complete-report sorts [...receipts]: the array of the body is not the
\* one that is sorted and cut
RouteReceiptsAfter(receipts, order) == receipts

\* ExcelGenerator.sortReceiptsByDate maps the receipts to a new array, sorts
\* that one and maps it to a third
GeneratorReceiptsAfter(receipts, order) == receipts

\* ExcelProcessor.sortReceiptsByDate sorts [...receipts], and the splice is on
\* what it returns
ProcessorReceiptsAfter(receipts, order) == receipts

Init ==
    /\ ServicesStart
    /\ endpoint = "none"
    /\ requestBody = NoRequest
    /\ response = NoResponse

\* a POST to /api/export-complete-report
ExportCompleteReport ==
    \E body \in ReceiptRequests \cup MileageRequests \cup NamelessRequests :
        /\ endpoint = "none"
        /\ UNCHANGED <<storeVars, analyzeVars, pageVars>>
        /\ endpoint' = "export-complete-report"
        /\ sentBody' = body
        /\ requestBody' = IF body.employeeName = "" THEN body
                           ELSE [body EXCEPT !.receipts =
                                    RouteReceiptsAfter(body.receipts, RouteSort(body.receipts))]
        /\ response' = ExportCompleteReportPOST(body)

\* a POST to /api/generate-expense-report, which runs ExcelGenerator
GenerateExpenseReport ==
    \E body \in ReceiptRequests \cup NamelessRequests :
        /\ endpoint = "none"
        /\ UNCHANGED <<storeVars, analyzeVars, pageVars>>
        /\ endpoint' = "generate-expense-report"
        /\ sentBody' = body
        /\ requestBody' = [body EXCEPT !.receipts =
                              GeneratorReceiptsAfter(body.receipts, sortReceiptsByDate(body.receipts))]
        /\ response' = GenerateExpenseReportPOST(body)

\* a call of ExcelProcessor.processExpenseReport
ProcessExpenseReport ==
    \E data \in ReceiptRequests :
        /\ endpoint = "none"
        /\ UNCHANGED <<storeVars, analyzeVars, pageVars>>
        /\ endpoint' = "excel-processor"
        /\ sentBody' = data
        /\ requestBody' = [data EXCEPT !.receipts =
                              ProcessorReceiptsAfter(data.receipts, ProcessorSort(data.receipts))]
        /\ response' = processWithWorkbook(data)

\* the response is delivered; the handlers keep nothing between calls
Deliver ==
    /\ endpoint # "none"
    /\ UNCHANGED <<storeVars, analyzeVars, pageVars>>
    /\ sentBody' = <<>>
    /\ endpoint' = "none"
    /\ requestBody' = NoRequest
    /\ response' = NoResponse

Next ==
    \/ ExportCompleteReport
    \/ GenerateExpenseReport
    \/ ProcessExpenseReport
    \/ Deliver

Spec == Init /\ [][Next]_vars

-----------------------------------------------------------------------------
(* The vocabulary of the properties.                                        *)

Succeeded(e) == endpoint = e /\ response.status = 200

Generated == endpoint # "none" /\ response.status = 200

\* the column of the row totals of the sheet of the call
TotalsCol ==
    CASE endpoint = "export-complete-report" -> RouteTotalsCol
      [] endpoint = "generate-expense-report" -> 16
      [] OTHER -> 20

\* the column of the summary values of the sheet of the call
SummaryCol == IF endpoint = "export-complete-report" THEN RouteTotalsCol ELSE 11

\* the column of a category in the sheet of the call
CategoryCol(category) ==
    CASE endpoint = "export-complete-report" -> RouteCol(category)
      [] endpoint = "generate-expense-report" -> GeneratorCol(category)
      [] OTHER -> ProcessorCol(category)

\* the amount the call reads from a receipt
AmountOf(receipt) ==
    IF endpoint = "export-complete-report" THEN RouteAmount(receipt.total)
    ELSE parseAmount(receipt.total)

\* the receipt in the k-th data row, and that row
PlacedReceipt(k) == requestBody.receipts[response.rowOf[k].id]

PlacedRow(k) == response.rowOf[k].row

Placed == 1..Len(response.rowOf)

\* the date key year*10000 + month*100 + day of a receipt
DateKey(receipt) == parseReceiptDate(normalizeDate(receipt.date))

\* the receipt at position k of the sorter's output
SortedReceipt(k) == requestBody.receipts[response.order[k]]

\* the k-th data row shows the receipt placed in it
ShowsReceipt(k) ==
    /\ Cell(response.sheet, PlacedRow(k), 2) = Text(PlacedReceipt(k).merchant)
    /\ CellNumber(response.sheet, PlacedRow(k), TotalsCol) = AmountOf(PlacedReceipt(k))

\* the first 28 receipts in sorted order fill rows 10-37 and the TOTALS row is row 39
Truncated ==
    /\ Len(response.rowOf) = 28
    /\ \A k \in Placed :
          /\ response.rowOf[k] = [row |-> 9 + k, id |-> response.order[k]]
          /\ ShowsReceipt(k)
    /\ {r \in DOMAIN response.sheet : r < response.totalsRow} \subseteq 10..37
    /\ response.totalsRow = 39

\* every receipt has a row, from row 10 on in sorted order, and the TOTALS row
\* comes two rows after the last of them
Extended ==
    /\ Len(response.rowOf) = Len(requestBody.receipts)
    /\ \A k \in Placed :
          /\ response.rowOf[k] = [row |-> 9 + k, id |-> response.order[k]]
          /\ ShowsReceipt(k)
    /\ response.totalsRow = Len(requestBody.receipts) + 11

\* a category text that neither the names of the columns nor the keywords of
\* export-complete-report recognise
NotRecognised(category) ==
    /\ LookupCategory(category) = 0
    /\ RouteCategory([category |-> category, vendor |-> <<>>]) = MISC
    /\ ~includes(toLowerCase(category), <<"m","i","s","c">>)

-----------------------------------------------------------------------------
(* The properties.                                                          *)

\* C1: in every sheet of export-complete-report, the sum of the twelve category
\* cells of the TOTALS row (row 39) is the grand-total cell of that row minus
\* the total mileage reimbursement.
C1_CategoryTotalsAddUp ==
    Succeeded("export-complete-report") =>
        RangeSum(response.sheet, 39, RouteCol(HOTEL), 39, RouteCol(MISC))
            = Minus(CellNumber(response.sheet, 39, RouteTotalsCol),
                    MileageTotal(requestBody.mileageEntries))

\* C2: in every report of export-complete-report and of ExcelGenerator the
\* grand-total cell of the TOTALS row, the TOTAL EXPENSES cell and the BALANCE
\* DUE EMPLOYEE cell hold the same value, NET ADVANCES is 0, and the value is
\* the sum of the Totals column over the data rows plus the mileage total.
C2_SummaryBalances ==
    Succeeded("export-complete-report") \/ Succeeded("generate-expense-report") =>
        LET sheet == response.sheet
            grand == CellNumber(sheet, response.totalsRow, TotalsCol)
        IN  /\ CellNumber(sheet, response.summaryRow, SummaryCol) = grand
            /\ CellNumber(sheet, response.summaryRow + 1, SummaryCol) = Num(0)
            /\ CellNumber(sheet, response.summaryRow + 3, SummaryCol) = grand
            /\ grand = Plus(RangeSum(sheet, 10, TotalsCol, response.totalsRow - 2, TotalsCol),
                            MileageTotal(requestBody.mileageEntries))

\* C2 happens: export-complete-report placed receipts of a request with mileage
\* entries, and the three cells hold the receipts' amounts plus the mileage total
C2_Witness ==
    /\ Succeeded("export-complete-report")
    /\ Len(requestBody.mileageEntries) > 0
    /\ Len(response.rowOf) > 0
    /\ MileageTotal(requestBody.mileageEntries).v > 0
    /\ CellNumber(response.sheet, 57, 19) = CellNumber(response.sheet, 39, 19)
    /\ CellNumber(response.sheet, 57, 19).v
          > MileageTotal(requestBody.mileageEntries).v

\* C3: when mileage entries are supplied, the GAS/MILEAGE cell of the TOTALS row
\* of export-complete-report is the sum of their reimbursableAmount, whatever
\* GAS receipts there are, and every number in the data rows 10-37 is the amount
\* of the receipt of that row, or the 0 in the Totals column of an unused row.
C3_MileageOverridesGas ==
    Succeeded("export-complete-report") /\ Len(requestBody.mileageEntries) > 0 =>
        /\ CellNumber(response.sheet, 39, RouteCol(GAS)) = MileageTotal(requestBody.mileageEntries)
        /\ \A r \in RouteFirstRow..maxExpenseRow : \A c \in RouteCols :
              Cell(response.sheet, r, c).t \in {"num", "nan"} =>
                  IF r - 9 \in Placed
                  THEN Cell(response.sheet, r, c) = AmountOf(PlacedReceipt(r - 9))
                  ELSE c = RouteTotalsCol /\ Cell(response.sheet, r, c) = Num(0)

\* C3 happens: a GAS receipt has its amount in the GAS column of its row, mileage
\* entries are supplied, and the GAS cell of row 39 is the mileage total alone
C3_Witness ==
    /\ Succeeded("export-complete-report")
    /\ Len(requestBody.mileageEntries) = MaxMileage
    /\ \E k \in Placed : Cell(response.sheet, PlacedRow(k), RouteCol(GAS)).t = "num"
    /\ Cell(response.sheet, 39, RouteCol(GAS)) = MileageTotal(requestBody.mileageEntries)

\* C4: the sorter of every generator returns a permutation of the receipts:
\* first those whose date parses, in ascending order of the date key
\* year*10000 + month*100 + day, then those whose date is missing or does not parse.
C4_SortedByDateKey ==
    Generated =>
        LET n == Len(requestBody.receipts)
        IN  /\ Len(response.order) = n
            /\ {response.order[k] : k \in 1..Len(response.order)} = 1..n
            /\ \A k, l \in 1..Len(response.order) :
                  k < l =>
                      LET a == DateKey(SortedReceipt(k))
                          b == DateKey(SortedReceipt(l))
                      IN  /\ a.ok /\ b.ok => a.sortValue <= b.sortValue
                          /\ ~(~a.ok /\ b.ok)

\* C5: the sort of export-complete-report and of ExcelGenerator is stable: two
\* receipts with the same parsed date, and two receipts whose dates are missing
\* or do not parse, come out in their input order.
C5_SortIsStable ==
    Succeeded("export-complete-report") \/ Succeeded("generate-expense-report") =>
        \A k, l \in 1..Len(response.order) :
            LET a == DateKey(SortedReceipt(k))
                b == DateKey(SortedReceipt(l))
            IN  /\ k < l
                /\ a.ok = b.ok
                /\ a.ok => a.sortValue = b.sortValue
                => response.order[k] < response.order[l]

C7_CapacityWarning ==
    endpoint # "none" /\ requestBody.employeeName # "" =>
        /\ response.status = 200
        /\ Len(requestBody.receipts) > 28 => response.warnings > 0
        /\ Len(requestBody.receipts) <= 28 => response.warnings = 0

\* C8: export-complete-report and ExcelGenerator put the amount of a receipt
\* whose category is "Office Supplies", in any letter case, in the OFFICE
\* SUPPLIES column of its row and in the OFFICE SUPPLIES total, and not in
\* COMPUTER SUPPLIES.
C8_OfficeSupplies ==
    Succeeded("export-complete-report") \/ Succeeded("generate-expense-report") =>
        \A k \in Placed :
            toLowerCase(PlacedReceipt(k).category) = <<"o","f","f","i","c","e"," ","s","u","p","p","l","i","e","s">> =>
                /\ Cell(response.sheet, PlacedRow(k), CategoryCol(OFFICE))
                      = AmountOf(PlacedReceipt(k))
                /\ Cell(response.sheet, PlacedRow(k), CategoryCol(COMPUTER)).t # "num"
                /\ CellNumber(response.sheet, response.totalsRow, CategoryCol(OFFICE))
                      = RangeSum(response.sheet, 10, CategoryCol(OFFICE),
                                 response.totalsRow - 2, CategoryCol(OFFICE))

\* C9: every placed receipt has its amount in exactly one of the twelve category
\* columns of its row, and that is the MISC column when the category is absent,
\* empty or not recognised.
C9_OneCategoryColumn ==
    Generated =>
        \A k \in Placed :
            LET filled == {c \in Categories :
                              Cell(response.sheet, PlacedRow(k), CategoryCol(c)).t = "num"}
            IN  /\ Cardinality(filled) = 1
                /\ \A c \in filled :
                      Cell(response.sheet, PlacedRow(k), CategoryCol(c)) = AmountOf(PlacedReceipt(k))
                /\ NotRecognised(PlacedReceipt(k).category) => filled = {MISC}

\* C10: export-complete-report and ExcelGenerator put a receipt whose merchant
\* field contains "restaurant", in any letter case, and whose category has no
\* hotel, lodging or motel keyword, in the MEALS column.
C10_RestaurantIsMeals ==
    Succeeded("export-complete-report") \/ Succeeded("generate-expense-report") =>
        \A k \in Placed :
            LET category == toLowerCase(PlacedReceipt(k).category)
            IN  /\ includes(toLowerCase(PlacedReceipt(k).merchant), <<"r","e","s","t","a","u","r","a","n","t">>)
                /\ ~includes(category, <<"h","o","t","e","l">>)
                /\ ~includes(category, <<"l","o","d","g","i","n","g">>)
                /\ ~includes(category, <<"m","o","t","e","l">>)
                => Cell(response.sheet, PlacedRow(k), CategoryCol(MEALS))
                      = AmountOf(PlacedReceipt(k))

\* a total that is missing, empty, or not a number once everything but digits,
\* '.' and '-' is stripped
Unparsable(total) == total = <<>> \/ parseFloat(StripAmount(total)) = NaN

\* C11: in a report of export-complete-report or ExcelGenerator, a receipt
\* whose total is missing, empty or not a number after stripping has its own
\* data row with the amount 0 in the Totals column, and the grand total and the
\* twelve category totals of the TOTALS row are numbers (no NaN).
C11_UnparsableCountsZero ==
    /\ Succeeded("export-complete-report") \/ Succeeded("generate-expense-report")
    /\ Len(requestBody.receipts) <= 28
    => /\ Len(response.rowOf) = Len(requestBody.receipts)
       /\ \A k \in Placed :
             Unparsable(PlacedReceipt(k).total) =>
                 CellNumber(response.sheet, PlacedRow(k), TotalsCol) = Num(0)
       /\ CellNumber(response.sheet, response.totalsRow, TotalsCol).t = "num"
       /\ \A c \in Categories :
             CellNumber(response.sheet, response.totalsRow, CategoryCol(c)).t = "num"

\* C12: a request without an employee name, to export-complete-report or to
\* generate-expense-report, is answered with an input-validation error (status
\* 400) and without a workbook.
C12_NamelessRejected ==
    /\ endpoint \in {"export-complete-report", "generate-expense-report"}
    /\ requestBody.employeeName = ""
    => /\ response.status = 400
       /\ response.sheets = 0
       /\ response.sheet = NoSheet

-----------------------------------------------------------------------------
(* The date functions called on their own.  One date text is drawn at the    *)
(* start; a call applies one function to it, or to it and a second text.     *)
(* endpoint then names the function, requestBody holds the texts it was      *)
(* given and response what it returned.                                      *)

DateMonths == {0, 1, 12, 13}

DateDays == {1, 31, 32}

YearTexts == {<<"0","5">>, <<"2","4">>, <<"1","8","9","9">>, <<"2","1","0","0">>, <<"2","1","0","1">>}

Separators == {"/", "-"}

\* month, day and year written with one separator, month and day without padding
MDYText(month, day, sep, year) ==
    IntToText(month) \o <<sep>> \o IntToText(day) \o <<sep>> \o year

\* ISO texts, zero-padded texts, texts that are no date, a day 0, a year of
\* three digits, white space around the date
OtherDateTexts ==
    {<<>>, <<"N","/","A">>, <<"2","0","2","4","-","0","1","-","0","5">>, <<"2","0","2","4","-","1","2","-","0","1">>, <<"2","0","0","5","-","1","-","3","1">>, <<"2","0","2","4","-","1","3","-","0","1">>,
     <<"0","1","/","0","5","/","2","0","2","4">>, <<"0","9","/","0","5","/","2","4">>, <<"1","/","0","/","2","4">>, <<"1","/","5","/","1","2","3">>, <<" ","1","/","5","/","2","4"," ">>}

DateTexts ==
    {MDYText(month, day, sep, year) :
        month \in DateMonths, day \in DateDays, sep \in Separators, year \in YearTexts}
    \cup OtherDateTexts

\* a receipt that carries a date, at position id of its list
DatedReceipt(date, id) ==
    [Receipt(date, <<"S","h","o","p">>, <<"1",".","0","0">>, <<"M","I","S","C">>) EXCEPT !.id = id]

DateInit ==
    /\ ServicesStart
    /\ endpoint = "none"
    /\ requestBody \in {<<dateStr>> : dateStr \in DateTexts}
    /\ response = <<>>

\* ExcelGenerator.parseReceiptDate on two texts
CallParseReceiptDate ==
    \E other \in DateTexts :
        /\ endpoint = "none"
        /\ UNCHANGED serviceVars
        /\ endpoint' = "parseReceiptDate"
        /\ requestBody' = Append(requestBody, other)
        /\ response' = <<parseReceiptDate(requestBody[1]), parseReceiptDate(other)>>

\* parseDate of export-complete-report
CallParseDate ==
    /\ endpoint = "none"
    /\ UNCHANGED serviceVars
    /\ endpoint' = "parseDate"
    /\ requestBody' = requestBody
    /\ response' = parseDate(requestBody[1])

\* ExcelGenerator.formatDate
CallFormatDate ==
    /\ endpoint = "none"
    /\ UNCHANGED serviceVars
    /\ endpoint' = "formatDate"
    /\ requestBody' = requestBody
    /\ response' = formatDate(requestBody[1])

\* formatDate of export-complete-report
CallRouteFormatDate ==
    /\ endpoint = "none"
    /\ UNCHANGED serviceVars
    /\ endpoint' = "export-complete-report.formatDate"
    /\ requestBody' = requestBody
    /\ response' = RouteFormatDate(requestBody[1])

\* ExcelProcessor.formatDate
CallProcessorFormatDate ==
    /\ endpoint = "none"
    /\ UNCHANGED serviceVars
    /\ endpoint' = "ExcelProcessor.formatDate"
    /\ requestBody' = requestBody
    /\ response' = ProcessorFormatDate(requestBody[1])

\* ExcelGenerator.sortReceiptsByDate on two receipts
CallSortReceiptsByDate ==
    \E other \in DateTexts :
        /\ endpoint = "none"
        /\ UNCHANGED serviceVars
        /\ endpoint' = "sortReceiptsByDate"
        /\ requestBody' = Append(requestBody, other)
        /\ response' = sortReceiptsByDate(<<DatedReceipt(requestBody[1], 1),
                                            DatedReceipt(other, 2)>>)

\* the sort of export-complete-report on two receipts
CallRouteSort ==
    \E other \in DateTexts :
        /\ endpoint = "none"
        /\ UNCHANGED serviceVars
        /\ endpoint' = "export-complete-report.sort"
        /\ requestBody' = Append(requestBody, other)
        /\ response' = RouteSort(<<DatedReceipt(requestBody[1], 1),
                                   DatedReceipt(other, 2)>>)

DateNext ==
    \/ CallParseReceiptDate
    \/ CallParseDate
    \/ CallFormatDate
    \/ CallRouteFormatDate
    \/ CallProcessorFormatDate
    \/ CallSortReceiptsByDate
    \/ CallRouteSort

DateSpec == DateInit /\ [][DateNext]_vars

-----------------------------------------------------------------------------
(* The vocabulary of the date properties.                                   *)

AllDigits(s) == \A i \in 1..Len(s) : IsDigit(s[i])

\* month/day/year text: one or two digits, a separator, one or two digits, a
\* separator, two to four digits
IsMDYText(s) ==
    LET parts == SplitSep(s, <<>>)
    IN  /\ Len(parts) = 3
        /\ \A i \in 1..3 : AllDigits(parts[i])
        /\ Len(parts[1]) \in 1..2 /\ Len(parts[2]) \in 1..2 /\ Len(parts[3]) \in 2..4

\* the month, the day and the year of month/day/year text, a year below 100
\* counted from 2000
MDYOf(s) ==
    LET parts == SplitSep(s, <<>>)
        number(part) == DigitsValue(part, 1, Len(part))
    IN  [month |-> number(parts[1]),
         day |-> number(parts[2]),
         year |-> IF number(parts[3]) < 100 THEN 2000 + number(parts[3]) ELSE number(parts[3])]

InRange(d) == d.month \in 1..12 /\ d.day \in 1..31 /\ d.year \in 1900..2100

KeyOf(d) == d.year * 10000 + d.month * 100 + d.day

\* the calendar date d comes before the calendar date e
Earlier(d, e) ==
    \/ d.year < e.year
    \/ d.year = e.year /\ d.month < e.month
    \/ d.year = e.year /\ d.month = e.month /\ d.day < e.day

\* parsed is null outside the ranges, and a date with the key of s otherwise
NullOrKey(s, parsed) ==
    IF InRange(MDYOf(s)) THEN parsed.ok /\ parsed.sortValue = KeyOf(MDYOf(s))
    ELSE ~parsed.ok

\* C13: on month/day/year text, ExcelGenerator.parseReceiptDate and parseDate
\* of export-complete-report return null when the month is not in 1..12, the
\* day not in 1..31 or the year (yy counted as 2000 + yy) not in 1900..2100,
\* and otherwise a date with the key year*10000 + month*100 + day; of two
\* such dates the earlier one has the strictly smaller key.
C13_NullOrKey ==
    /\ endpoint = "parseReceiptDate" =>
          /\ \A i \in 1..2 : IsMDYText(requestBody[i]) => NullOrKey(requestBody[i], response[i])
          /\ /\ IsMDYText(requestBody[1]) /\ InRange(MDYOf(requestBody[1]))
             /\ IsMDYText(requestBody[2]) /\ InRange(MDYOf(requestBody[2]))
             /\ Earlier(MDYOf(requestBody[1]), MDYOf(requestBody[2]))
             => response[1].sortValue < response[2].sortValue
    /\ endpoint = "parseDate" =>
          (IsMDYText(requestBody[1]) => NullOrKey(requestBody[1], response))

\* ISO text YYYY-MM-DD
IsISOText(s) ==
    /\ Len(s) = 10
    /\ s[5] = "-" /\ s[8] = "-"
    /\ \A i \in {1, 2, 3, 4, 6, 7, 9, 10} : IsDigit(s[i])

ISOOf(s) ==
    [year |-> DigitsValue(s, 1, 4), month |-> DigitsValue(s, 6, 7), day |-> DigitsValue(s, 9, 10)]

\* s is a date in ISO form, or in month/day/year form
IsISODate(s) == IsISOText(s) /\ InRange(ISOOf(s))

IsMDYDate(s) == IsMDYText(s) /\ InRange(MDYOf(s))

DateOf(s) == IF IsISOText(s) THEN ISOOf(s) ELSE MDYOf(s)

\* a text without any digit
NoDate(s) == \A i \in 1..Len(s) : ~IsDigit(s[i])

\* C14: the sorters of ExcelGenerator and of export-complete-report order a
\* receipt with a valid ISO date YYYY-MM-DD by that date: before a receipt
\* with a later date, behind one with an earlier date, in input order on the
\* same date, and before a receipt without a date.
C14_ISODateSorted ==
    endpoint \in {"sortReceiptsByDate", "export-complete-report.sort"} =>
        LET a == requestBody[1]
            b == requestBody[2]
        IN  /\ /\ IsISODate(a) \/ IsISODate(b)
               /\ IsISODate(a) \/ IsMDYDate(a)
               /\ IsISODate(b) \/ IsMDYDate(b)
               => response = IF Earlier(DateOf(b), DateOf(a)) THEN <<2, 1>> ELSE <<1, 2>>
            /\ IsISODate(b) /\ NoDate(a) => response = <<2, 1>>
            /\ IsISODate(a) /\ NoDate(b) => response = <<1, 2>>

\* month/day/year text with a year of two digits, month in 1..12, day in 1..31
IsMDYYDate(s) ==
    /\ IsMDYText(s)
    /\ Len(SplitSep(s, <<>>)[3]) = 2
    /\ MDYOf(s).month \in 1..12
    /\ MDYOf(s).day \in 1..31

\* a number below 100 in two digits
TwoDigits(n) == <<Digits[(n \div 10) + 1], Digits[(n % 10) + 1]>>

\* MM/DD/YYYY of a date
Display(d) == TwoDigits(d.month) \o <<"/">> \o TwoDigits(d.day) \o <<"/">> \o IntToText(d.year)

\* C15: for M/D/YY text with month in 1..12 and day in 1..31, formatDate of
\* ExcelGenerator and of export-complete-report return MM/DD/YYYY, month and
\* day in two digits and the year 2000 + yy; the parser of the same generator
\* reads from the output the date it reads from the input, and formatting the
\* output returns the output.
C15_DisplayRoundTrip ==
    /\ endpoint = "formatDate" /\ IsMDYYDate(requestBody[1]) =>
          /\ response = Display(MDYOf(requestBody[1]))
          /\ parseReceiptDate(response).ok
          /\ parseReceiptDate(response) = parseReceiptDate(requestBody[1])
          /\ parseReceiptDate(response).sortValue = KeyOf(MDYOf(requestBody[1]))
          /\ formatDate(response) = response
    /\ endpoint = "export-complete-report.formatDate" /\ IsMDYYDate(requestBody[1]) =>
          /\ response = Display(MDYOf(requestBody[1]))
          /\ parseDate(response).ok
          /\ parseDate(response) = parseDate(requestBody[1])
          /\ RouteFormatDate(response) = response

\* C15 happens: ExcelGenerator.formatDate was given M/D/YY text with a month
\* and a day of one digit and returned ten characters
C15_Witness ==
    /\ endpoint = "formatDate"
    /\ IsMDYYDate(requestBody[1])
    /\ Len(requestBody[1]) = 6
    /\ Len(response) = 10
    /\ response # requestBody[1]

\* C16: ExcelGenerator.formatDate returns its input unchanged whenever
\* parseReceiptDate returns null for it, and ExcelProcessor.formatDate returns
\* its input unchanged whenever new Date of it is invalid.
C16_UnparsedUnchanged ==
    /\ endpoint = "formatDate" /\ ~parseReceiptDate(requestBody[1]).ok =>
          response = requestBody[1]
    /\ endpoint = "ExcelProcessor.formatDate" /\ ~JsDate(requestBody[1]).ok =>
          response = requestBody[1]

\* the column of the Purpose cells of the sheet of the call
PurposeCol == IF endpoint = "generate-expense-report" THEN 3 ELSE 4

\* C17: in every data row of export-complete-report and of ExcelGenerator the
\* Purpose cell holds the receipt's description, or "Business Expense" when
\* the receipt has no description, whatever the receipt's category is.
C17_PurposeIsDescription ==
    Succeeded("export-complete-report") \/ Succeeded("generate-expense-report") =>
        \A k \in Placed :
            Cell(response.sheet, PlacedRow(k), PurposeCol)
                = IF PlacedReceipt(k).description = <<>> THEN Text(<<"B","u","s","i","n","e","s","s"," ","E","x","p","e","n","s","e">>)
                  ELSE Text(PlacedReceipt(k).description)

\* C18: the workbook of export-complete-report has the mileage sheet exactly
\* when the request holds at least one mileage entry; without mileage entries
\* it has the expense sheet only, and the grand total is the sum of the Totals
\* column of the data rows, with nothing added for mileage.
C18_MileageSheetIffEntries ==
    Succeeded("export-complete-report") =>
        /\ response.sheets = 2 <=> Len(requestBody.mileageEntries) >= 1
        /\ response.mileageSheet # NoSheet <=> Len(requestBody.mileageEntries) >= 1
        /\ Len(requestBody.mileageEntries) = 0 =>
              /\ response.sheets = 1
              /\ CellNumber(response.sheet, 39, RouteTotalsCol)
                    = RangeSum(response.sheet, 10, RouteTotalsCol, 37, RouteTotalsCol)

\* C18 happens: a request with mileage entries got the second sheet, with the
\* entries in it
C18_Witness ==
    /\ Succeeded("export-complete-report")
    /\ Len(requestBody.mileageEntries) = MaxMileage
    /\ response.sheets = 2
    /\ Cell(response.mileageSheet, 4 + MaxMileage, 6)
          = requestBody.mileageEntries[MaxMileage].reimbursableAmount

\* the number a value counts for in a total: a missing value counts 0
Counted(x) == IF x.t = "num" THEN x ELSE Num(0)

\* C19: the mileage sheet shows the entries of the request one per row from
\* row 5 on, in the order of the request; its total row holds the sum of the
\* reimbursableDistance and the sum of the reimbursableAmount of all entries,
\* a missing value counted as 0; and the amount total is the GAS/MILEAGE cell
\* of the TOTALS row of the expense sheet.
C19_MileageSheetTotals ==
    Succeeded("export-complete-report") /\ Len(requestBody.mileageEntries) > 0 =>
        LET entries == requestBody.mileageEntries
            n == Len(entries)
            sheet == response.mileageSheet
            totalRow == CHOOSE r \in DOMAIN sheet : \A q \in DOMAIN sheet : q <= r
        IN  /\ \A i \in 1..n :
                  /\ Cell(sheet, 4 + i, 1) = Text(entries[i].date)
                  /\ Cell(sheet, 4 + i, 4) = Text(entries[i].businessPurpose)
                  /\ Cell(sheet, 4 + i, 5) = entries[i].reimbursableDistance
                  /\ Cell(sheet, 4 + i, 6) = entries[i].reimbursableAmount
            /\ \A r \in DOMAIN sheet :
                  r > 4 + n /\ r < totalRow => \A c \in 1..6 : Cell(sheet, r, c) = Text(<<>>)
            /\ Cell(sheet, totalRow, 5)
                  = SumSeq([i \in 1..n |-> Counted(entries[i].reimbursableDistance)])
            /\ Cell(sheet, totalRow, 6)
                  = SumSeq([i \in 1..n |-> Counted(entries[i].reimbursableAmount)])
            /\ CellNumber(response.sheet, 39, RouteCol(GAS)) = Cell(sheet, totalRow, 6)

\* C19 happens: two entries with different amounts, the larger one first, and
\* an entry without amount, are on the sheet with a total above 0
C19_Witness ==
    /\ Succeeded("export-complete-report")
    /\ Len(requestBody.mileageEntries) >= 2
    /\ requestBody.mileageEntries[1].reimbursableAmount = Num(500)
    /\ requestBody.mileageEntries[2].reimbursableAmount = Undefined
    /\ Cell(response.mileageSheet, 5, 6) = Num(500)
    /\ Cell(response.mileageSheet, 6, 6) = Undefined
    /\ Cell(response.mileageSheet, 27 + Len(requestBody.mileageEntries) - 1, 6) = Num(500)

-----------------------------------------------------------------------------
(* The mileage form (MileageEntry of ReceiptTable.tsx): Calculate Distance.  *)
(* Distances are counted in hundredths of a mile (/api/mileage/calculate     *)
(* returns two decimals), the rate in cents per mile, so an amount is        *)
(* counted in hundredths of a cent.  The form and the answer of              *)
(* /api/mileage/calculate are drawn at the start; endpoint names the         *)
(* handler, requestBody holds the form and the answer, response the form     *)
(* after the handler.                                                        *)

IRS_MILEAGE_RATE == 67

\* the one-way distances /api/mileage/calculate answers with
Distances == {0, 1, 1250, 10000}

\* the personal commute typed into the form; min="0" of the input does not
\* keep a negative number from being typed
Commutes == {-500, 0, 500, 2000, 2500, 30000}

Max(a, b) == IF a > b THEN a ELSE b

\* the form before a calculation
FormData(isFormValid, roundTrip, personalCommute) ==
    [isFormValid |-> isFormValid, roundTrip |-> roundTrip, personalCommute |-> personalCommute,
     calculatedDistance |-> Undefined, reimbursableDistance |-> Undefined,
     reimbursableAmount |-> Undefined]

\* the answers of /api/mileage/calculate: a distance, or an error
CalculateResults ==
    {[ok |-> TRUE, distance |-> d] : d \in Distances} \cup {[ok |-> FALSE, distance |-> 0]}

\* a calculation that subtracts the commute without the floor of 0
handleCalculateDistanceUnclamped(formData, result) ==
    IF ~formData.isFormValid \/ ~result.ok THEN formData
    ELSE LET totalDistance == result.distance * (IF formData.roundTrip THEN 2 ELSE 1)
             reimbursableDistance == totalDistance - formData.personalCommute
         IN  [formData EXCEPT !.calculatedDistance = Num(totalDistance),
                              !.reimbursableDistance = Num(reimbursableDistance),
                              !.reimbursableAmount = Num(reimbursableDistance * IRS_MILEAGE_RATE)]

\* handleCalculateDistance: the form after it; nothing changes when the form
\* is not valid or the request fails
handleCalculateDistance(formData, result) ==
    IF ~formData.isFormValid \/ ~result.ok THEN formData
    ELSE LET totalDistance == result.distance * (IF formData.roundTrip THEN 2 ELSE 1)
             reimbursableDistance == Max(0, totalDistance - formData.personalCommute)
             reimbursableAmount == reimbursableDistance * IRS_MILEAGE_RATE
         IN  [formData EXCEPT !.calculatedDistance = Num(totalDistance),
                              !.reimbursableDistance = Num(reimbursableDistance),
                              !.reimbursableAmount = Num(reimbursableAmount)]

MileageInit ==
    /\ ServicesStart
    /\ endpoint = "none"
    /\ requestBody \in
           {[formData |-> FormData(isFormValid, roundTrip, personalCommute), result |-> result] :
               isFormValid \in BOOLEAN, roundTrip \in BOOLEAN,
               personalCommute \in Commutes, result \in CalculateResults}
    /\ response = <<>>

\* the user clicks Calculate Distance
CalculateDistance ==
    /\ endpoint = "none"
    /\ UNCHANGED serviceVars
    /\ endpoint' = "handleCalculateDistance"
    /\ requestBody' = requestBody
    /\ response' = handleCalculateDistance(requestBody.formData, requestBody.result)

MileageNext == CalculateDistance

MileageSpec == MileageInit /\ [][MileageNext]_vars

\* the rates the reimbursement could be asked for, in cents per mile
MileageRates == {50, 67}

\* the handler calculated a reimbursement
Calculated ==
    /\ endpoint = "handleCalculateDistance"
    /\ requestBody.formData.isFormValid
    /\ requestBody.result.ok

\* the distances the form and the answer of the call should give
ExpectedTotalDistance ==
    requestBody.result.distance * (IF requestBody.formData.roundTrip THEN 2 ELSE 1)

ExpectedReimbursableDistance ==
    Max(0, ExpectedTotalDistance - requestBody.formData.personalCommute)

\* C20 as stated: whatever the rate is, the reimbursable amount is the
\* reimbursable distance times that rate; 100 miles, round trip, with a commute
\* of 20 miles, at 0.50 a mile give 200 miles, 180 miles and 90.00.
C20_AnyRate ==
    Calculated =>
        /\ response.calculatedDistance = Num(ExpectedTotalDistance)
        /\ response.reimbursableDistance = Num(ExpectedReimbursableDistance)
        /\ \A rate \in MileageRates :
              response.reimbursableAmount = Num(ExpectedReimbursableDistance * rate)

\* C20: totalDistance is the distance, doubled for a round trip;
\* reimbursableDistance is totalDistance minus the personal commute, and 0
\* when the commute is longer; reimbursableAmount is reimbursableDistance
\* times IRS_MILEAGE_RATE, the one rate of the form.
C20_FixedRate ==
    Calculated =>
        /\ response.calculatedDistance = Num(ExpectedTotalDistance)
        /\ response.reimbursableDistance = Num(ExpectedReimbursableDistance)
        /\ response.reimbursableAmount = Num(ExpectedReimbursableDistance * IRS_MILEAGE_RATE)

\* C20 happens: 100 miles, round trip, commute 20 miles: 200 miles, 180 miles
\* and 120.60
C20_Witness ==
    /\ Calculated
    /\ requestBody.result.distance = 10000
    /\ requestBody.formData.roundTrip
    /\ requestBody.formData.personalCommute = 2000
    /\ response.calculatedDistance = Num(20000)
    /\ response.reimbursableDistance = Num(18000)
    /\ response.reimbursableAmount = Num(1206000)

\* C21: whatever distance and personal commute the calculation is given,
\* negative ones included, 0 <= reimbursableDistance <= totalDistance and
\* reimbursableAmount >= 0.
C21_ClampedToZero ==
    Calculated =>
        /\ 0 <= response.reimbursableDistance.v
        /\ response.reimbursableDistance.v <= response.calculatedDistance.v
        /\ response.reimbursableAmount.v >= 0

-----------------------------------------------------------------------------
(* The mileage entry store: GET, POST and DELETE of /api/mileage/entries on  *)
(* the module variable mileageEntries.  Distances are counted in hundredths  *)
(* of a mile and amounts in hundredths of a cent, as in the mileage form.    *)
(* endpoint names the route, requestBody holds the last request and          *)
(* response its response.                                                    *)

\* the number of entries created in a run of the model
MaxEntries == 3

\* the body of a POST
EntryData(date, startAddress, businessPurpose, reimbursableDistance, reimbursableAmount) ==
    [date |-> date, startAddress |-> startAddress, endAddress |-> <<"A","i","r","p","o","r","t">>,
     businessPurpose |-> businessPurpose,
     calculatedDistance |-> reimbursableDistance,
     reimbursableDistance |-> reimbursableDistance,
     reimbursableAmount |-> reimbursableAmount]

\* what the form sends after a calculation, an amount that is not the distance
\* times the rate, and bodies with a field missing
EntryBodies ==
    {EntryData(<<"2","0","2","4","-","0","1","-","0","5">>, <<"O","f","f","i","c","e">>, <<"C","l","i","e","n","t"," ","v","i","s","i","t">>, Num(1000), Num(1000 * IRS_MILEAGE_RATE)),
     EntryData(<<"2","0","2","4","-","0","2","-","0","1">>, <<"O","f","f","i","c","e">>, <<"C","o","n","f","e","r","e","n","c","e">>, Num(2500), Num(2500 * IRS_MILEAGE_RATE)),
     EntryData(<<"2","0","2","4","-","0","1","-","2","0">>, <<"H","o","m","e">>, <<"S","i","t","e"," ","v","i","s","i","t">>, Num(1000), Num(99900)),
     EntryData(<<>>, <<"O","f","f","i","c","e">>, <<"C","l","i","e","n","t"," ","v","i","s","i","t">>, Num(1000), Num(67000)),
     EntryData(<<"2","0","2","4","-","0","1","-","0","5">>, <<>>, <<"C","l","i","e","n","t"," ","v","i","s","i","t">>, Num(1000), Num(67000)),
     EntryData(<<"2","0","2","4","-","0","1","-","0","5">>, <<"O","f","f","i","c","e">>, <<>>, Num(1000), Num(67000)),
     EntryData(<<"2","0","2","4","-","0","1","-","0","5">>, <<"O","f","f","i","c","e">>, <<"C","l","i","e","n","t"," ","v","i","s","i","t">>, Undefined, Num(67000)),
     EntryData(<<"2","0","2","4","-","0","1","-","0","5">>, <<"O","f","f","i","c","e">>, <<"C","l","i","e","n","t"," ","v","i","s","i","t">>, Num(1000), Undefined)}

StoreRequest(method, entryData, hasId, id) ==
    [method |-> method, entryData |-> entryData, hasId |-> hasId, id |-> id]

NoEntryData == EntryData(<<>>, <<>>, <<>>, Undefined, Undefined)

StoreResponse(status, entries) == [status |-> status, entries |-> entries]

\* GET: the entries, newest date first
MileageEntriesGET(mileageEntries) ==
    LET sorted(order) == [k \in 1..Len(order) |-> mileageEntries[order[k]]]
    IN  StoreResponse(200,
            sorted(ArraySort(Len(mileageEntries),
                             [p \in (1..Len(mileageEntries)) \X (1..Len(mileageEntries)) |->
                                  TimeDifference(JsDate(mileageEntries[p[2]].date),
                                                 JsDate(mileageEntries[p[1]].date))])))

\* a validation that looks at the four texts only
PostStatusTextsOnly(entryData) ==
    IF \/ entryData.date = <<>> \/ entryData.startAddress = <<>>
       \/ entryData.endAddress = <<>> \/ entryData.businessPurpose = <<>>
    THEN 400
    ELSE 200

\* the validation of POST: the status it answers with
PostStatus(entryData) ==
    IF \/ entryData.date = <<>> \/ entryData.startAddress = <<>>
       \/ entryData.endAddress = <<>> \/ entryData.businessPurpose = <<>>
    THEN 400
    ELSE IF \/ entryData.calculatedDistance = Undefined
            \/ entryData.reimbursableDistance = Undefined
            \/ entryData.reimbursableAmount = Undefined
    THEN 400
    ELSE 200

\* newEntry: the body with the generated id (the number of the entry stands
\* for `mileage_${Date.now()}_${random}`)
NewEntry(entryData, id) ==
    [id |-> id, date |-> entryData.date, startAddress |-> entryData.startAddress,
     endAddress |-> entryData.endAddress, businessPurpose |-> entryData.businessPurpose,
     calculatedDistance |-> entryData.calculatedDistance,
     reimbursableDistance |-> entryData.reimbursableDistance,
     reimbursableAmount |-> entryData.reimbursableAmount]

\* a filter that hands the remaining entries back in the opposite order
RECURSIVE FilterOutReversed(_, _)
FilterOutReversed(entries, entryId) ==
    IF entries = <<>> THEN <<>>
    ELSE IF Head(entries).id # entryId THEN FilterOutReversed(Tail(entries), entryId) \o <<Head(entries)>>
    ELSE FilterOutReversed(Tail(entries), entryId)

\* mileageEntries.filter(entry => entry.id !== entryId)
RECURSIVE FilterOut(_, _)
FilterOut(entries, entryId) ==
    IF entries = <<>> THEN <<>>
    ELSE IF Head(entries).id # entryId THEN <<Head(entries)>> \o FilterOut(Tail(entries), entryId)
    ELSE FilterOut(Tail(entries), entryId)

\* the validation of DELETE and the comparison of the lengths: the status it
\* answers with
DeleteStatus(mileageEntries, hasId, entryId) ==
    IF ~hasId THEN 400
    ELSE IF Len(FilterOut(mileageEntries, entryId)) = Len(mileageEntries) THEN 404
    ELSE 200

StoreInit ==
    /\ ServicesStart
    /\ endpoint = "none"
    /\ requestBody = StoreRequest("none", NoEntryData, FALSE, 0)
    /\ response = StoreResponse(0, <<>>)

\* GET /api/mileage/entries
GetEntries ==
    /\ endpoint' = "mileage/entries"
    /\ requestBody' = StoreRequest("GET", NoEntryData, FALSE, 0)
    /\ response' = MileageEntriesGET(storedEntries)
    /\ UNCHANGED <<callVars, storeVars, analyzeVars, pageVars>>

\* POST /api/mileage/entries
PostEntry ==
    \E entryData \in EntryBodies :
        /\ entryCount < MaxEntries
        /\ UNCHANGED <<callVars, analyzeVars, pageVars>>
        /\ endpoint' = "mileage/entries"
        /\ requestBody' = StoreRequest("POST", entryData, FALSE, 0)
        /\ IF PostStatus(entryData) = 200
           THEN /\ storedEntries' = Append(storedEntries, NewEntry(entryData, entryCount + 1))
                /\ entryCount' = entryCount + 1
                /\ response' = StoreResponse(200, <<NewEntry(entryData, entryCount + 1)>>)
           ELSE /\ UNCHANGED storeVars
                /\ response' = StoreResponse(PostStatus(entryData), <<>>)

\* DELETE /api/mileage/entries?id=...
DeleteEntry ==
    \E hasId \in BOOLEAN, entryId \in 1..MaxEntries :
        /\ UNCHANGED <<callVars, analyzeVars, pageVars>>
        /\ endpoint' = "mileage/entries"
        /\ requestBody' = StoreRequest("DELETE", NoEntryData, hasId, IF hasId THEN entryId ELSE 0)
        /\ storedEntries' = IF hasId THEN FilterOut(storedEntries, entryId) ELSE storedEntries
        /\ entryCount' = entryCount
        /\ response' = StoreResponse(DeleteStatus(storedEntries, hasId, entryId), <<>>)

StoreNext ==
    \/ GetEntries
    \/ PostEntry
    \/ DeleteEntry

StoreSpec == StoreInit /\ [][StoreNext]_vars

-----------------------------------------------------------------------------
(* The mileage entry store: properties.                                      *)

StoreMethod(method) == endpoint = "mileage/entries" /\ requestBody.method = method

\* the entry was stored or supplied with the amount its distance gives
AmountRecomputed(entry) ==
    /\ entry.reimbursableDistance.t = "num"
    /\ entry.reimbursableAmount.t = "num"
    /\ entry.reimbursableAmount.v = entry.reimbursableDistance.v * IRS_MILEAGE_RATE

\* C22: after any sequence of POST and DELETE requests every stored mileage
\* entry has reimbursableAmount = reimbursableDistance * mileage rate.
C22_AmountRecomputed ==
    \A k \in 1..Len(storedEntries) : AmountRecomputed(storedEntries[k])

\* one of the four texts, or one of the three calculated values, is missing
MissingField(entryData) ==
    \/ \E f \in {"date", "startAddress", "endAddress", "businessPurpose"} : Len(entryData[f]) = 0
    \/ \E f \in {"calculatedDistance", "reimbursableDistance", "reimbursableAmount"} :
           entryData[f].t = "undefined"

HasEntry(entries, id) == \E k \in 1..Len(entries) : entries[k].id = id

\* C28: a POST with a field missing returns 400, a DELETE without an id
\* returns 400, a DELETE with an id of no entry returns 404, and each of them
\* leaves the stored entries and their order as they were; GET never changes
\* the store.
C28_RejectedLeavesStore ==
    [][/\ (StoreMethod("POST")' /\ MissingField(requestBody'.entryData)) =>
              (response'.status = 400 /\ storedEntries' = storedEntries)
       /\ (StoreMethod("DELETE")' /\ ~requestBody'.hasId) =>
              (response'.status = 400 /\ storedEntries' = storedEntries)
       /\ (StoreMethod("DELETE")' /\ requestBody'.hasId
              /\ ~HasEntry(storedEntries, requestBody'.id)) =>
              (response'.status = 404 /\ storedEntries' = storedEntries)
       /\ StoreMethod("GET")' => storedEntries' = storedEntries]_vars

\* a DELETE with the id of no entry was answered with 404 while entries are
\* stored
C28_Witness ==
    /\ StoreMethod("DELETE") /\ requestBody.hasId
    /\ response.status = 404
    /\ Len(storedEntries) >= 2

Deleted(id) == StoreMethod("DELETE") /\ requestBody.hasId /\ requestBody.id = id /\ response.status = 200

Returned(id) == StoreMethod("GET") /\ HasEntry(response.entries, id)

\* C29: an accepted POST appends exactly one entry and leaves the earlier
\* entries as they were; a successful DELETE(id) leaves no entry with that id
\* and keeps every other entry in its previous relative order; and no GET
\* after it returns the deleted id.
C29_AppendAndRemove ==
    /\ [][/\ (StoreMethod("POST")' /\ response'.status = 200) =>
                 /\ Len(storedEntries') = Len(storedEntries) + 1
                 /\ SubSeq(storedEntries', 1, Len(storedEntries)) = storedEntries
          /\ (StoreMethod("DELETE")' /\ response'.status = 200) =>
                 /\ ~HasEntry(storedEntries', requestBody'.id)
                 /\ storedEntries' = SelectSeq(storedEntries, LAMBDA e : e.id # requestBody'.id)]_vars
    /\ \A id \in 1..MaxEntries : [](Deleted(id) => [](~Returned(id)))

\* the first of three entries was deleted and the other two are returned
C29_Witness ==
    /\ StoreMethod("GET")
    /\ entryCount = 3
    /\ Len(response.entries) = 2
    /\ ~HasEntry(response.entries, 1)

-----------------------------------------------------------------------------
(* analyze-receipt: POST validates the file, uploads it to S3, has Textract  *)
(* analyse it and deletes it.  One action per await of the handler; calls    *)
(* lists the calls of the two services with their outcome.  requestBody is   *)
(* the file of the form and response the response of the handler (status 0   *)
(* while it runs).                                                           *)

MAX_FILE_SIZE == 5242880

FileSizes == {0, 1, 1024, MAX_FILE_SIZE, MAX_FILE_SIZE + 1}

\* what sizeOf(buffer).type or, after it, the magic bytes give ("none": neither
\* recognises the buffer)
DetectedFormats == {"jpg", "png", "pdf", "gif", "heic", "none"}

FormFile(present, size, format) == [present |-> present, size |-> size, format |-> format]

\* the form without a file, the empty file, and files of every size and format
FormFiles ==
    {FormFile(FALSE, 0, "none"), FormFile(TRUE, 0, "none")}
        \cup {FormFile(TRUE, size, format) : size \in FileSizes \ {0}, format \in DetectedFormats}

\* if (actualFormat === 'jpg') actualFormat = 'jpeg'
ActualFormat(format) == IF format = "jpg" THEN "jpeg" ELSE format

\* a validation that does not look at the size
validateImageBufferAnySize(buffer) ==
    IF buffer.size = 0 THEN [isValid |-> FALSE, errors |-> {"empty"}]
    ELSE [isValid |-> ActualFormat(buffer.format) \in {"jpeg", "png", "pdf", "none"},
          errors |-> IF ActualFormat(buffer.format) \in {"jpeg", "png", "pdf", "none"}
                     THEN {} ELSE {"format"}]

\* ImageValidator.validateImageBuffer: isValid and the kinds of its errors
validateImageBuffer(buffer) ==
    LET sizeErrors == IF buffer.size > MAX_FILE_SIZE THEN {"size"} ELSE {}
        formatErrors == IF /\ ActualFormat(buffer.format) # "none"
                           /\ ActualFormat(buffer.format) \notin {"jpeg", "png", "pdf"}
                        THEN {"format"} ELSE {}
    IN  IF buffer.size = 0
        THEN [isValid |-> FALSE, errors |-> sizeErrors \cup {"empty"}]
        ELSE [isValid |-> sizeErrors \cup formatErrors = {},
              errors |-> sizeErrors \cup formatErrors]

AnalyzeResponse(status, success, error) == [status |-> status, success |-> success, error |-> error]

Running == AnalyzeResponse(0, FALSE, <<>>)

ServiceCall(op, ok) == [op |-> op, ok |-> ok]

\* the errors S3Service and TextractService throw
UploadFailed == <<"F","a","i","l","e","d"," ","t","o"," ","u","p","l","o","a","d"," ","f","i","l","e"," ","t","o"," ","S","3">>
AnalyzeFailed == <<"F","a","i","l","e","d"," ","t","o"," ","a","n","a","l","y","z","e"," ","r","e","c","e","i","p","t"," ","w","i","t","h"," ","T","e","x","t","r","a","c","t">>
DeleteFailed == <<"F","a","i","l","e","d"," ","t","o"," ","d","e","l","e","t","e"," ","f","i","l","e"," ","f","r","o","m"," ","S","3">>

\* a catch block that does not clean up
CatchCallsNone(uploaded, made, ok) == made

\* lines 98-104: if (s3Object) { try { deleteFile } catch { log } }
CatchCalls(uploaded, made, ok) ==
    IF uploaded # "none" THEN Append(made, ServiceCall("deleteFile", ok)) ELSE made

\* lines 106-145: the response for the error that was caught
ErrorResponse(message) ==
    IF includes(message, <<"U","n","s","u","p","p","o","r","t","e","d","D","o","c","u","m","e","n","t","E","x","c","e","p","t","i","o","n">>)
    THEN AnalyzeResponse(400, FALSE, <<"D","o","c","u","m","e","n","t"," ","f","o","r","m","a","t"," ","n","o","t"," ","s","u","p","p","o","r","t","e","d"," ","b","y"," ","T","e","x","t","r","a","c","t">>)
    ELSE IF includes(message, <<"c","r","e","d","e","n","t","i","a","l","s">>)
    THEN AnalyzeResponse(500, FALSE, <<"A","W","S"," ","c","r","e","d","e","n","t","i","a","l","s"," ","n","o","t"," ","c","o","n","f","i","g","u","r","e","d"," ","p","r","o","p","e","r","l","y">>)
    ELSE IF includes(message, <<"I","n","v","a","l","i","d","P","a","r","a","m","e","t","e","r","E","x","c","e","p","t","i","o","n">>)
    THEN AnalyzeResponse(400, FALSE, <<"I","n","v","a","l","i","d"," ","d","o","c","u","m","e","n","t"," ","p","a","r","a","m","e","t","e","r","s">>)
    ELSE AnalyzeResponse(500, FALSE, <<"F","a","i","l","e","d"," ","t","o"," ","a","n","a","l","y","z","e"," ","r","e","c","e","i","p","t">>)

AnalyzeInit ==
    /\ ServicesStart
    /\ endpoint = "none"
    /\ requestBody = FormFile(FALSE, 0, "none")
    /\ response = Running

\* lines 16-62: a request arrives and is validated
ReceiveFile ==
    \E file \in FormFiles :
        /\ analyzePc \in {"idle", "done"}
        /\ UNCHANGED <<callVars, storeVars, pageVars>>
        /\ endpoint' = "analyze-receipt"
        /\ requestBody' = file
        /\ s3Object' = "none" /\ thrown' = <<>> /\ calls' = <<>>
        /\ IF ~file.present
           THEN analyzePc' = "done" /\ response' = AnalyzeResponse(400, FALSE, <<"N","o"," ","f","i","l","e"," ","p","r","o","v","i","d","e","d">>)
           ELSE IF ~validateImageBuffer(file).isValid
           THEN analyzePc' = "done" /\ response' = AnalyzeResponse(400, FALSE, <<"I","m","a","g","e"," ","v","a","l","i","d","a","t","i","o","n"," ","f","a","i","l","e","d">>)
           ELSE analyzePc' = "uploadFile" /\ response' = Running

\* line 71: s3Object = await S3Service.uploadFile(validatedFile)
UploadFile ==
    \E ok \in BOOLEAN :
        /\ analyzePc = "uploadFile"
        /\ UNCHANGED <<callVars, storeVars, pageVars, endpoint, requestBody, response>>
        /\ calls' = Append(calls, ServiceCall("uploadFile", ok))
        /\ IF ok
           THEN s3Object' = "key" /\ analyzePc' = "analyzeExpense" /\ UNCHANGED thrown
           ELSE thrown' = UploadFailed /\ analyzePc' = "catch" /\ UNCHANGED s3Object

\* line 75: extractedData = await TextractService.analyzeExpense(s3Object)
AnalyzeExpense ==
    \E ok \in BOOLEAN :
        /\ analyzePc = "analyzeExpense"
        /\ UNCHANGED <<callVars, storeVars, pageVars, endpoint, requestBody, response, s3Object>>
        /\ calls' = Append(calls, ServiceCall("analyzeExpense", ok))
        /\ IF ok
           THEN analyzePc' = "deleteFile" /\ UNCHANGED thrown
           ELSE thrown' = AnalyzeFailed /\ analyzePc' = "catch"

\* lines 79-85: await S3Service.deleteFile(s3Object.key) and the success response
DeleteFile ==
    \E ok \in BOOLEAN :
        /\ analyzePc = "deleteFile"
        /\ UNCHANGED <<callVars, storeVars, pageVars, endpoint, requestBody, s3Object>>
        /\ calls' = Append(calls, ServiceCall("deleteFile", ok))
        /\ IF ok
           THEN analyzePc' = "done" /\ response' = AnalyzeResponse(200, TRUE, <<>>) /\ UNCHANGED thrown
           ELSE thrown' = DeleteFailed /\ analyzePc' = "catch" /\ UNCHANGED response

\* lines 87-146: the catch block
CatchError ==
    \E ok \in BOOLEAN :
        /\ analyzePc = "catch"
        /\ UNCHANGED <<callVars, storeVars, pageVars, endpoint, requestBody, s3Object, thrown>>
        /\ calls' = CatchCalls(s3Object, calls, ok)
        /\ response' = ErrorResponse(thrown)
        /\ analyzePc' = "done"

AnalyzeNext ==
    \/ ReceiveFile
    \/ UploadFile
    \/ AnalyzeExpense
    \/ DeleteFile
    \/ CatchError

AnalyzeSpec == AnalyzeInit /\ [][AnalyzeNext]_vars

-----------------------------------------------------------------------------
(* analyze-receipt: properties.                                              *)

\* the handler has returned its response
Responded == endpoint = "analyze-receipt" /\ response.status # 0

CallOk(op) == \E k \in 1..Len(calls) : calls[k].op = op /\ calls[k].ok

CallFailed(op) == \E k \in 1..Len(calls) : calls[k].op = op /\ ~calls[k].ok

\* a delete was attempted after the upload that succeeded
DeleteAfterUpload ==
    \E j, k \in 1..Len(calls) :
        /\ j < k
        /\ calls[j].op = "uploadFile" /\ calls[j].ok
        /\ calls[k].op = "deleteFile"

\* C23: when the upload succeeded a delete of the uploaded key has been
\* attempted by the time the response is returned, whether the OCR call
\* succeeded or failed; and after an OCR failure the response is the error
\* response of that failure whether or not the cleanup delete failed.
C23_CleanupAttempted ==
    Responded =>
        /\ CallOk("uploadFile") => DeleteAfterUpload
        /\ CallFailed("analyzeExpense") =>
               response = AnalyzeResponse(500, FALSE, <<"F","a","i","l","e","d"," ","t","o"," ","a","n","a","l","y","z","e"," ","r","e","c","e","i","p","t">>)

\* the OCR call failed and so did the delete of the catch block
C23_Witness ==
    /\ Responded
    /\ CallOk("uploadFile")
    /\ CallFailed("analyzeExpense")
    /\ CallFailed("deleteFile")

\* C26: when validation passed and the upload and the OCR call succeeded, the
\* response is the success response, whether or not the cleanup delete
\* succeeded; and the OCR call is made at most once per request.
C26_SuccessDespiteCleanup ==
    /\ (Responded /\ CallOk("uploadFile") /\ CallOk("analyzeExpense")) =>
           (response.status = 200 /\ response.success)
    /\ Cardinality({k \in 1..Len(calls) : calls[k].op = "analyzeExpense"}) <= 1

\* no file, an empty file, a file of more than 5MB, or a detected format that
\* is not JPEG, PNG or PDF
InvalidFile(file) ==
    \/ ~file.present
    \/ file.size = 0
    \/ file.size > 5 * 1024 * 1024
    \/ file.format \notin {"jpg", "png", "pdf", "none"}

\* C27: for a request without a file or with an invalid one the response is
\* 400 and no upload, OCR call or delete is made; a call is only ever made
\* for a file that passed validation.
C27_ValidationFirst ==
    /\ (endpoint = "analyze-receipt" /\ InvalidFile(requestBody)) =>
           (response.status = 400 /\ calls = <<>>)
    /\ calls # <<>> => ~InvalidFile(requestBody)

\* a JPEG of more than 5MB was answered with 400
C27_Witness ==
    /\ Responded
    /\ requestBody.present /\ requestBody.format = "jpg"
    /\ requestBody.size > 5 * 1024 * 1024
    /\ response.status = 400
    /\ calls = <<>>

-----------------------------------------------------------------------------
(* The report generators: the receipts of the caller, and truncation.        *)

\* C24: after a call of a report generator, answered or rejected, the receipts
\* the caller holds have the same length, the same order and the same field
\* values as the ones sent, also when more than 28 receipts were sent and the
\* sorted list was cut to 28.
C24_ReceiptsNotMutated ==
    endpoint \in {"export-complete-report", "generate-expense-report", "excel-processor"} =>
        /\ Len(requestBody.receipts) = Len(sentBody.receipts)
        /\ \A i \in 1..Len(sentBody.receipts) : requestBody.receipts[i] = sentBody.receipts[i]

\* export-complete-report got more than 28 receipts that were not in date
\* order, placed 28 of them, and the caller still holds them all as sent
C24_Witness ==
    /\ Succeeded("export-complete-report")
    /\ Len(sentBody.receipts) > 28
    /\ Len(response.rowOf) = 28
    /\ \E k \in 1..Len(response.order) : response.order[k] # k
    /\ requestBody.receipts = sentBody.receipts

\* C30: with more than 28 receipts, the grand total of the sheet of
\* export-complete-report and of ExcelProcessor is the sum of the amounts of
\* exactly the receipts placed in rows 10-37, and every category total of
\* export-complete-report is the sum of its column over those rows.
C30_DroppedCountNowhere ==
    (Succeeded("export-complete-report") \/ Succeeded("excel-processor"))
        /\ Len(requestBody.receipts) > 28 =>
        /\ Len(response.rowOf) = 28
        /\ \A k \in Placed : PlacedRow(k) = 9 + k
        /\ CellNumber(response.sheet, 39, TotalsCol)
              = SumSeq([k \in 1..28 |-> AmountOf(PlacedReceipt(k))])
        /\ endpoint = "export-complete-report" =>
              \A c \in Categories :
                  CellNumber(response.sheet, 39, RouteCol(c))
                      = RangeSum(response.sheet, 10, RouteCol(c), 37, RouteCol(c))

-----------------------------------------------------------------------------
(* The main page: the state of Home and its handlers.  An upload is one step *)
(* (the moment its setReceipts runs); a report generation is two, the        *)
(* request and its response, and the page stays usable in between.           *)
(* generatedReport remembers the request that the report answers.            *)

\* the receipts uploaded in a run of the model
MaxUploads == 2

\* the requests to generate-expense-report that can be waiting for a response
MaxInFlight == 1

\* the data of a receipt as analyze-receipt extracted it (no description, no
\* category) and as the user can edit it
ExtractedData == [description |-> "", category |-> ""]

ReceiptData ==
    {ExtractedData,
     [description |-> "Client lunch", category |-> "MEALS"],
     [description |-> "Taxi", category |-> "TRANSPORT"]}

EmployeeNames == {"", "Pat"}

ReceiptEntry(id, data) == [id |-> id, data |-> data]

\* areAllReceiptsComplete()
areAllReceiptsComplete(receipts, employeeName) ==
    /\ Len(receipts) > 0
    /\ employeeName # ""
    /\ \A k \in 1..Len(receipts) :
          receipts[k].data.description # "" /\ receipts[k].data.category # ""

\* the condition of the Process / Re-Process button
ProcessButtonShown ==
    /\ Len(uiReceipts) > 0
    /\ areAllReceiptsComplete(uiReceipts, uiEmployeeName)
    /\ (~generatedReport.set \/ hasEditsAfterGeneration)

\* expenseReportData, and what setGeneratedReport stores for it
ExpenseReportData(employeeName, receipts) == [employeeName |-> employeeName, receipts |-> receipts]

ReportFor(data) == [set |-> TRUE, receipts |-> data.receipts, employeeName |-> data.employeeName]

\* if (generatedReport) setHasEditsAfterGeneration(true)
MarkEdited == IF generatedReport.set THEN TRUE ELSE hasEditsAfterGeneration

notPage == <<endpoint, requestBody, response, callVars, storeVars, analyzeVars>>

PageInit ==
    /\ ServicesStart
    /\ endpoint = "none"
    /\ requestBody = <<>>
    /\ response = <<>>

\* handleFileSelect: the receipt of an analysed file is put in front
HandleFileSelect ==
    /\ receiptCount < MaxUploads
    /\ uiReceipts' = <<ReceiptEntry(receiptCount + 1, ExtractedData)>> \o uiReceipts
    /\ receiptCount' = receiptCount + 1
    /\ UNCHANGED <<uiEmployeeName, generatedReport, hasEditsAfterGeneration, inFlight, notPage>>

\* handleMultipleFiles: the receipts of the files that were analysed are put
\* in front, in the order of the files
HandleMultipleFiles ==
    \E n \in 1..MaxUploads :
        /\ receiptCount + n <= MaxUploads
        /\ uiReceipts' = [i \in 1..n |-> ReceiptEntry(receiptCount + i, ExtractedData)] \o uiReceipts
        /\ receiptCount' = receiptCount + n
        /\ UNCHANGED <<uiEmployeeName, generatedReport, hasEditsAfterGeneration, inFlight, notPage>>

\* handleDataChange
HandleDataChange ==
    \E k \in 1..Len(uiReceipts), newData \in ReceiptData :
        /\ uiReceipts' = [uiReceipts EXCEPT ![k] = ReceiptEntry(uiReceipts[k].id, newData)]
        /\ hasEditsAfterGeneration' = MarkEdited
        /\ UNCHANGED <<uiEmployeeName, generatedReport, inFlight, receiptCount, notPage>>

\* removeReceipt
RemoveReceipt ==
    \E k \in 1..Len(uiReceipts) :
        /\ uiReceipts' = SelectSeq(uiReceipts, LAMBDA receipt : receipt.id # uiReceipts[k].id)
        /\ hasEditsAfterGeneration' = MarkEdited
        /\ UNCHANGED <<uiEmployeeName, generatedReport, inFlight, receiptCount, notPage>>

\* onChange of the employee name input
ChangeEmployeeName ==
    \E name \in EmployeeNames :
        /\ Len(uiReceipts) > 0
        /\ uiEmployeeName' = name
        /\ hasEditsAfterGeneration' = MarkEdited
        /\ UNCHANGED <<uiReceipts, generatedReport, inFlight, receiptCount, notPage>>

\* handleProcessExpenseReport up to the fetch
HandleProcessExpenseReport ==
    /\ ProcessButtonShown
    /\ Cardinality(inFlight) < MaxInFlight
    /\ inFlight' = inFlight \cup {ExpenseReportData(uiEmployeeName, uiReceipts)}
    /\ UNCHANGED <<uiReceipts, uiEmployeeName, generatedReport, hasEditsAfterGeneration,
                   receiptCount, notPage>>

\* handleProcessExpenseReport after the fetch: the report is stored and the
\* edit tracking reset, or the error is shown
ReportResponse ==
    \E data \in inFlight, ok \in BOOLEAN :
        /\ inFlight' = inFlight \ {data}
        /\ generatedReport' = IF ok THEN ReportFor(data) ELSE generatedReport
        /\ hasEditsAfterGeneration' = IF ok THEN FALSE ELSE hasEditsAfterGeneration
        /\ UNCHANGED <<uiReceipts, uiEmployeeName, receiptCount, notPage>>

\* resetApp (Clear All)
ResetApp ==
    /\ Len(uiReceipts) > 0
    /\ uiReceipts' = <<>>
    /\ generatedReport' = NoReport
    /\ UNCHANGED <<uiEmployeeName, hasEditsAfterGeneration, inFlight, receiptCount, notPage>>

PageNext ==
    \/ HandleFileSelect
    \/ HandleMultipleFiles
    \/ HandleDataChange
    \/ RemoveReceipt
    \/ ChangeEmployeeName
    \/ HandleProcessExpenseReport
    \/ ReportResponse
    \/ ResetApp

PageSpec == PageInit /\ [][PageNext]_vars

\* the page presents the generated report as the current one
PresentedAsCurrent == generatedReport.set /\ ~hasEditsAfterGeneration

\* C25: whenever the page presents the generated report as current, the
\* receipts and the employee name of the page are the ones of the request
\* that produced the report.
C25_CurrentReportMatches ==
    PresentedAsCurrent =>
        /\ uiReceipts = generatedReport.receipts
        /\ uiEmployeeName = generatedReport.employeeName

=============================================================================
